---------------------------- MODULE Spec2Model ----------------------------
(***************************************************************************)
(* Model of the Bitbucket MCP server's pull-request diff subsystem:        *)
(*   - the transport layer (axios interceptors: pacing, 429 retry, 5xx     *)
(*     backoff) of BitbucketClient,                                        *)
(*   - SimpleCache (TTL cache with lazy expiry and periodic sweep),        *)
(*   - BitbucketClient.getPullRequestDiff (the fallback state machine),    *)
(*   - BitbucketClient.extractFileFromDiff,                                *)
(*   - BitbucketClient.getPullRequestDiffEnhanced / getPullRequestDiffStat.*)
(* Each component has its own specification over the shared variables; the *)
(* variables of the components a specification does not exercise stay at   *)
(* their initial values.                                                   *)
(***************************************************************************)
EXTENDS Integers, Sequences, FiniteSets, TLC

VARIABLES
    \* ---- transport (src/client/bitbucket.ts 30-31, 55-106)
    rateLimitDelay,   \* BitbucketClient.rateLimitDelay, shared by all requests
    tpc,              \* per request: where its promise chain stands
    cfgRetry,         \* per request: config._retry
    cfgRetryCount,    \* per request: config._retryCount || 0
    timer,            \* per request: the setTimeout duration being awaited
    sent,             \* per request: transmissions made so far
    got429,           \* per request: 429 responses received so far
    got5xx,           \* per request: 5xx responses received so far
    reissued429,      \* per request: re-issues made by the 429 branch
    lastStatus,       \* per request: status of the last response
    lastHeader,       \* per request: retry-after header of the last response
    \* ---- SimpleCache (src/unnamed/part_004 1241-1324)
    cache,            \* SimpleCache.cache: key -> CacheEntry, for the keys present
    now,              \* Date.now()
    lastOp,           \* the last cache operation, what it saw and what it returned
    unswept,          \* history: the map SimpleCache's operations would have left had
                      \* the setInterval callback never run (kept by the operations
                      \* of the cache specification, empty in the others)
    \* ---- getPullRequestDiff (src/client/bitbucket.ts 874-1041)
    dpc,              \* the await the call is suspended at
    dlog,             \* the upstream requests the call has issued, in order
    dlast,            \* the last upstream response the call received
    directStatus,     \* outcome of the direct diff request (line 881)
    validateStatus,   \* outcome of the metadata request of the sanity check (line 884)
    dbody,            \* response.data of the direct diff request
    dpr,              \* pr: prResponse.data of the fallback path (line 906)
    dn,               \* commits.length
    di,               \* loop index i of the commit loop
    dmismatch,        \* the content-sanity check threw 'Content mismatch'
    dres,             \* how the call ended
    \* ---- extractFileFromDiff (src/client/bitbucket.ts 710-812)
    xpc,              \* "input": arguments chosen; "done": the function returned
    fullDiff,         \* argument fullDiff, as its lines
    filePath,         \* argument filePath, as its characters
    extracted,        \* the returned text, as its lines
    extractedAgain,   \* what extractFileFromDiff returned for the returned text
    parsed,           \* the list parseDiffForFileStats returned for fullDiff
    fopts,            \* argument options of applyDiffFilters
    filtered,         \* the text applyDiffFilters returned for fullDiff
    filteredAgain,    \* what applyDiffFilters returned for the returned text
    \* ---- getPullRequestDiffEnhanced (src/client/bitbucket.ts 526-612)
    epc,              \* position of the call in flight
    eopts,            \* argument options
    efull,            \* the diff the handler holds (fullDiff, originalDiff)
    efetches,         \* calls of getPullRequestDiff made during the call
    eres,             \* how the call ended
    \* ---- createPullRequest (src/client/bitbucket.ts 288-313)
    cpc,              \* "idle", "posting" (the POST is in flight), "done"
    cargs,            \* arguments workspace and repo_slug
    cres,             \* how the call ended
    \* ---- the CallToolRequestSchema handler (index.ts 96-250)
    bitbucketClient,  \* the global client: NoClient (null) or the number of a built client
    clients,          \* the clients built so far: clients[n] is the config of client n
    spc,              \* per tool call: "idle", "validating", "running", "done"
    sname,            \* per tool call: request.params.name
    sclient,          \* per tool call: the client handed to the tool function
    sreq,             \* per tool call: upstream requests made on behalf of the call
    sres,             \* per tool call: how the handler ended
    \* ---- getFileSpecificDiff (src/client/bitbucket.ts 614-708)
    fpc,              \* position of the call: the request or call it is suspended on
    flog,             \* the diff requests and calls made so far, in order
    fpr,              \* pr: what getPullRequest returned
    flast,            \* the last answer the call received
    fres,             \* how the call ended
    \* ---- the cache-through reads (src/client/bitbucket.ts 138-286, 377-426)
    \* and the upstream they read from
    rpc,              \* per read call: idle, inflight, served, done
    rmethod,          \* per read call: the method called
    rsnap,            \* per read call: the response on its way back
    rres,             \* per read call: what the call returned
    rfloor,           \* history, per read call: the creations that had returned
                      \* successfully when the call began
    upstream,         \* the pull requests created in the repository so far
    posted,           \* the POST in flight has been carried out upstream
    confirmed,        \* history: the createPullRequest calls that returned successfully
    \* ---- getPullRequestDiffStat (src/client/bitbucket.ts 1043-1063)
    sdiff,            \* how the getPullRequestDiff of line 1052 ended, and diffText
    sfiles            \* the DiffStat[] returned from line 1053

txVars == <<rateLimitDelay, tpc, cfgRetry, cfgRetryCount, timer, sent,
            got429, got5xx, reissued429, lastStatus, lastHeader>>

cacheVars == <<cache, now, lastOp, unswept>>

diffVars == <<dpc, dlog, dlast, directStatus, validateStatus, dbody, dpr, dn, di,
              dmismatch, dres>>

textVars ==
    <<xpc, fullDiff, filePath, extracted, extractedAgain, parsed, fopts, filtered, filteredAgain>>

enhVars == <<epc, eopts, efull, efetches, eres>>

createVars == <<cpc, cargs, cres>>

serverVars == <<bitbucketClient, clients, spc, sname, sclient, sreq, sres>>

fileVars == <<fpc, flog, fpr, flast, fres>>

readVars == <<rpc, rmethod, rsnap, rres, rfloor, upstream, posted, confirmed>>

statVars == <<sdiff, sfiles>>

vars ==
    <<txVars, cacheVars, diffVars, textVars, enhVars, createVars, serverVars, fileVars, readVars,
      statVars>>

\* What the operations of one component leave alone.
outsideTransport ==
    <<cacheVars, diffVars, textVars, enhVars, createVars, serverVars, fileVars,
      readVars, statVars>>

outsideCache ==
    <<txVars, diffVars, textVars, enhVars, createVars, serverVars, fileVars,
      readVars, statVars>>

\* What getPullRequestDiffStat leaves alone apart from the variables of the
\* getPullRequestDiff it calls.
outsideStat ==
    <<txVars, now, lastOp, unswept, textVars, enhVars, createVars, serverVars,
      fileVars, readVars>>

outsideDiff ==
    <<txVars, now, lastOp, unswept, textVars, enhVars, createVars, serverVars,
      fileVars, readVars, statVars>>

outsideText ==
    <<txVars, cacheVars, diffVars, enhVars, createVars, serverVars, fileVars,
      readVars, statVars>>

outsideEnhanced ==
    <<txVars, now, lastOp, unswept, diffVars, textVars, createVars, serverVars,
      fileVars, readVars, statVars>>

outsideCreate ==
    <<txVars, now, lastOp, unswept, diffVars, textVars, enhVars, serverVars,
      fileVars, readVars, statVars>>

outsideServer ==
    <<txVars, cacheVars, diffVars, textVars, enhVars, createVars, fileVars, readVars, statVars>>

outsideFile ==
    <<txVars, now, lastOp, unswept, diffVars, textVars, enhVars, createVars,
      serverVars, readVars, statVars>>

-----------------------------------------------------------------------------
(* JavaScript numbers: NaN is the one non-integer value the model needs.   *)

NaN == 0 - 1

JsMin(a, b) == IF a = NaN \/ b = NaN THEN NaN ELSE IF a < b THEN a ELSE b

JsMax(a, b) == IF a = NaN \/ b = NaN THEN NaN ELSE IF a > b THEN a ELSE b

JsMul(a, b) == IF a = NaN \/ b = NaN THEN NaN ELSE a * b

JsSub(a, b) == IF a = NaN \/ b = NaN THEN NaN ELSE a - b

JsGt(a, b) == a # NaN /\ b # NaN /\ a > b

RECURSIVE Pow2(_)
Pow2(n) == IF n = 0 THEN 1 ELSE 2 * Pow2(n - 1)

-----------------------------------------------------------------------------
(* SimpleCache.                                                            *)

\* CacheKeys: the key strings, as their ':'-separated parts.
KeyPullRequest(workspace, repo_slug, pr_id) == <<"pr", workspace, repo_slug, pr_id>>

KeyPullRequests(workspace, repo_slug, filters) == <<"prs", workspace, repo_slug, filters>>

\* The keys, values and TTLs the cache is exercised with.
Keys == {KeyPullRequest("ws", "repo", "1"), KeyPullRequests("ws", "repo", "{}")}

Values == {"v1", "v2"}

Ttls == {0, 100, 200}

\* Time advances in steps of TimeStep up to MaxTime.
TimeStep == 50

MaxTime == 300

Null == "null"

NoOp == [op |-> "none", key |-> <<>>, ret |-> Null, age |-> 0, ttl |-> 0, ttlMs |-> 0]

CacheEntry(data, ttlMs) == [data |-> data, timestamp |-> now, ttl |-> ttlMs]

Has(c, key) == key \in DOMAIN c

\* Map.delete
MapDelete(c, key) == [k \in DOMAIN c \ {key} |-> c[k]]

\* A variant of MapSet that keeps an entry the key already has.
MapSet_IfAbsent(c, key, entry) ==
    [k \in DOMAIN c \cup {key} |-> IF k = key /\ k \notin DOMAIN c THEN entry ELSE c[k]]

\* Map.set
MapSet(c, key, entry) == [k \in DOMAIN c \cup {key} |-> IF k = key THEN entry ELSE c[k]]

\* Mutant: the operands of the subtraction are swapped.
Expired_Swapped(entry, t) == entry.timestamp - t > entry.ttl

\* The expiry test of get / has / cleanup.
Expired(entry, t) == t - entry.timestamp > entry.ttl

\* SimpleCache.get: what it returns and the map it leaves.
GetResult(c, key, t) ==
    IF ~Has(c, key) THEN Null
    ELSE IF Expired(c[key], t) THEN Null
    ELSE c[key].data

GetCache(c, key, t) ==
    IF Has(c, key) /\ Expired(c[key], t) THEN MapDelete(c, key) ELSE c

\* A variant of SweepExpired: an entry is swept when its age reaches the ttl.
SweepExpired_AtTtl(entry, t) == t - entry.timestamp >= entry.ttl

\* line 1310 of cleanup: now - entry.timestamp > entry.ttl
SweepExpired(entry, t) == t - entry.timestamp > entry.ttl

\* SimpleCache.cleanup: the map the sweep leaves.
CleanupCache(c, t) ==
    LET expiredKeys == {k \in DOMAIN c : SweepExpired(c[k], t)}
    IN  [k \in DOMAIN c \ expiredKeys |-> c[k]]

\* The cache of a client that has served nothing yet.
CacheIdle ==
    /\ cache = <<>>
    /\ now = 0
    /\ lastOp = NoOp
    /\ unswept = cache

Seen(key, what) ==
    [op |-> what, key |-> key, ret |-> Null,
     age |-> IF Has(cache, key) THEN now - cache[key].timestamp ELSE 0,
     ttl |-> IF Has(cache, key) THEN cache[key].ttl ELSE 0,
     ttlMs |-> 0]

CacheSet(key, data, ttlMs) ==
    /\ cache' = MapSet(cache, key, CacheEntry(data, ttlMs))
    /\ unswept' = MapSet(unswept, key, CacheEntry(data, ttlMs))
    /\ lastOp' = [Seen(key, "set") EXCEPT !.ret = data, !.ttlMs = ttlMs]
    /\ UNCHANGED <<now, outsideCache>>

CacheGet(key) ==
    /\ cache' = GetCache(cache, key, now)
    /\ unswept' = GetCache(unswept, key, now)
    /\ lastOp' = [Seen(key, "get") EXCEPT !.ret = GetResult(cache, key, now)]
    /\ UNCHANGED <<now, outsideCache>>

CacheDelete(key) ==
    /\ cache' = MapDelete(cache, key)
    /\ unswept' = MapDelete(unswept, key)
    /\ lastOp' = Seen(key, "delete")
    /\ UNCHANGED <<now, outsideCache>>

CacheClear ==
    /\ cache' = <<>>
    /\ unswept' = <<>>
    /\ lastOp' = Seen(<<>>, "clear")
    /\ UNCHANGED <<now, outsideCache>>

\* The setInterval callback of the constructor.  The interval is a
\* constructor parameter; the sweep may run at any instant.
CacheCleanup ==
    /\ cache' = CleanupCache(cache, now)
    /\ lastOp' = Seen(<<>>, "cleanup")
    /\ UNCHANGED <<now, unswept, outsideCache>>

\* Time passes.
Tick ==
    /\ now + TimeStep <= MaxTime
    /\ now' = now + TimeStep
    /\ lastOp' = Seen(<<>>, "tick")
    /\ UNCHANGED <<cache, unswept, outsideCache>>

CacheNext ==
    \/ \E key \in Keys, data \in Values, ttlMs \in Ttls : CacheSet(key, data, ttlMs)
    \/ \E key \in Keys : CacheGet(key)
    \/ \E key \in Keys : CacheDelete(key)
    \/ CacheClear
    \/ CacheCleanup
    \/ Tick

-----------------------------------------------------------------------------
(* Transport layer.                                                        *)

Reqs == {"r1", "r2"}

InitialDelay == 100

DelayFloor == 100

DelayStep == 50

DelayCap == 10000

maxRetries == 3

MsPerSecond == 1000

ServerErrorMin == 500

\* The retry-after header of a 429 response: absent, delay-seconds, or an
\* HTTP-date.
NoHeader == "undefined"

RetryAfterHeaders == {NoHeader, "", "0", "1", "5", "30", "Wed, 21 Oct 2026 07:28:00 GMT"}

\* parseInt on the header values above.
ParseInt(h) ==
    CASE h = "0" -> 0
      [] h = "1" -> 1
      [] h = "5" -> 5
      [] h = "30" -> 30
      [] OTHER -> NaN

\* JavaScript truthiness of a header value (undefined and "" are falsy).
Truthy(h) == h # NoHeader /\ h # ""

\* error.response?.status of a failure without a response (timeout, network
\* error): undefined, which equals no status and is not >= 500.
NoResponse == 0

\* What the upstream can answer one transmission with.
ErrorStatuses == {401, 404, 429, 500, 503, NoResponse}

TxInit ==
    /\ rateLimitDelay = InitialDelay
    /\ tpc = [r \in Reqs |-> "idle"]
    /\ cfgRetry = [r \in Reqs |-> FALSE]
    /\ cfgRetryCount = [r \in Reqs |-> 0]
    /\ timer = [r \in Reqs |-> 0]
    /\ sent = [r \in Reqs |-> 0]
    /\ got429 = [r \in Reqs |-> 0]
    /\ got5xx = [r \in Reqs |-> 0]
    /\ reissued429 = [r \in Reqs |-> 0]
    /\ lastStatus = [r \in Reqs |-> NoResponse]
    /\ lastHeader = [r \in Reqs |-> NoHeader]

\* A variant of PacingWait: the wait is the delay the client started with.
PacingWait_Private == IF JsGt(InitialDelay, 0) THEN InitialDelay ELSE 0

\* Request interceptor: wait the current pacing delay before the request goes out.
PacingWait == IF JsGt(rateLimitDelay, 0) THEN rateLimitDelay ELSE 0

\* A caller issues a request: client.get / client.post enters the request
\* interceptor.
Issue(r) ==
    /\ tpc[r] = "idle"
    /\ tpc' = [tpc EXCEPT ![r] = "pacing"]
    /\ timer' = [timer EXCEPT ![r] = PacingWait]
    /\ UNCHANGED <<rateLimitDelay, cfgRetry, cfgRetryCount, sent, got429, got5xx,
                   reissued429, lastStatus, lastHeader, outsideTransport>>

\* The pacing timer fires and the request is transmitted.
Transmit(r) ==
    /\ tpc[r] = "pacing"
    /\ tpc' = [tpc EXCEPT ![r] = "inflight"]
    /\ sent' = [sent EXCEPT ![r] = @ + 1]
    /\ timer' = [timer EXCEPT ![r] = 0]
    /\ UNCHANGED <<rateLimitDelay, cfgRetry, cfgRetryCount, got429, got5xx,
                   reissued429, lastStatus, lastHeader, outsideTransport>>

\* Response interceptor, success handler.
SuccessDelay(d) == JsMax(DelayFloor, JsSub(d, DelayStep))

OnSuccess(r) ==
    /\ tpc[r] = "inflight"
    /\ rateLimitDelay' = SuccessDelay(rateLimitDelay)
    /\ tpc' = [tpc EXCEPT ![r] = "resolved"]
    /\ lastStatus' = [lastStatus EXCEPT ![r] = 200]
    /\ lastHeader' = [lastHeader EXCEPT ![r] = NoHeader]
    /\ UNCHANGED <<cfgRetry, cfgRetryCount, timer, sent, got429, got5xx, reissued429,
                   outsideTransport>>

\* Response interceptor, error handler: the 429 branch.
RateLimitWait(h, d) == IF Truthy(h) THEN JsMul(ParseInt(h), MsPerSecond) ELSE JsMul(d, 2)

RateLimitDelayAfter429(h, d) == JsMin(RateLimitWait(h, d), DelayCap)

\* Mutant: the _retry flag is not consulted.
RetriesOn429_IgnoresFlag(retry) == TRUE

RetriesOn429(retry) == ~retry

\* A variant of IsServerError that takes every error status for a server error.
IsServerError_From400(status) == status # NoResponse /\ status >= 400

\* Response interceptor, error handler: the 5xx branch.
IsServerError(status) == status # NoResponse /\ status >= ServerErrorMin

\* Mutant: off-by-one retry ceiling.
RetriesOn5xx_OffByOne(retryCount) == retryCount <= maxRetries

RetriesOn5xx(retryCount) == retryCount < maxRetries

BackoffWait(retryCount) == Pow2(retryCount) * MsPerSecond

\* Response interceptor, error handler, for one failed transmission with the
\* given status (NoResponse: error.response is undefined) and retry-after header.
OnError(r, status, h) ==
    /\ tpc[r] = "inflight"
    /\ (status # 429 => h = NoHeader)
    /\ lastStatus' = [lastStatus EXCEPT ![r] = status]
    /\ lastHeader' = [lastHeader EXCEPT ![r] = h]
    /\ got429' = [got429 EXCEPT ![r] = IF status = 429 THEN @ + 1 ELSE @]
    /\ got5xx' = [got5xx EXCEPT ![r] = IF IsServerError(status) THEN @ + 1 ELSE @]
    /\ rateLimitDelay' =
          IF status = 429 THEN RateLimitDelayAfter429(h, rateLimitDelay)
          ELSE rateLimitDelay
    /\ IF status = 429 /\ RetriesOn429(cfgRetry[r])
       THEN /\ cfgRetry' = [cfgRetry EXCEPT ![r] = TRUE]
            /\ timer' = [timer EXCEPT ![r] = RateLimitWait(h, rateLimitDelay)]
            /\ tpc' = [tpc EXCEPT ![r] = "wait429"]
            /\ UNCHANGED cfgRetryCount
       ELSE IF IsServerError(status) /\ RetriesOn5xx(cfgRetryCount[r])
       THEN /\ cfgRetryCount' = [cfgRetryCount EXCEPT ![r] = @ + 1]
            /\ timer' = [timer EXCEPT ![r] = BackoffWait(cfgRetryCount[r])]
            /\ tpc' = [tpc EXCEPT ![r] = "wait5xx"]
            /\ UNCHANGED cfgRetry
       ELSE /\ tpc' = [tpc EXCEPT ![r] = "rejected"]
            /\ UNCHANGED <<cfgRetry, cfgRetryCount, timer>>
    /\ UNCHANGED <<sent, reissued429, outsideTransport>>

\* The retry timer fires: this.client.request(config) re-enters the request
\* interceptor with the same config object.
Reissue(r) ==
    /\ tpc[r] \in {"wait429", "wait5xx"}
    /\ tpc' = [tpc EXCEPT ![r] = "pacing"]
    /\ timer' = [timer EXCEPT ![r] = PacingWait]
    /\ reissued429' = [reissued429 EXCEPT ![r] = IF tpc[r] = "wait429" THEN @ + 1 ELSE @]
    /\ UNCHANGED <<rateLimitDelay, cfgRetry, cfgRetryCount, sent, got429, got5xx,
                   lastStatus, lastHeader, outsideTransport>>

TxNext ==
    \E r \in Reqs :
        \/ Issue(r)
        \/ Transmit(r)
        \/ OnSuccess(r)
        \/ \E status \in ErrorStatuses, h \in RetryAfterHeaders : OnError(r, status, h)
        \/ Reissue(r)

-----------------------------------------------------------------------------
(* BitbucketClient.getPullRequestDiff.                                     *)
(* A text (title, branch name, commit message, diff body) is the set of    *)
(* the words it contains; the empty string is the empty set.  The outcome  *)
(* of an upstream request is what the transport finally hands back: 200    *)
(* with a body, or an error status.                                        *)

MaxCommits == 4

\* A variant of CommitLoopMax: one commit more is tried.
CommitLoopMax_Four == 3 + 1

CommitLoopMax == 3

Ok == 200

NotFound == 404

FetchFailures == {403, NotFound, 429, 500, NoResponse}

Bodies == SUBSET {"emergency", "cpd", "fix"}

Titles == {{"fix"}, {"Emergency", "fix"}}

BranchNames == {{"fix"}, {"emergency"}}

CommitMessages == {{"fix"}, {"emergency"}}

PrResponses == [title : Titles, branch : BranchNames, srcHash : BOOLEAN, dstHash : BOOLEAN]

NoPr == [title |-> {}, branch |-> {}, srcHash |-> FALSE, dstHash |-> FALSE]

\* The call's arguments and the cache keys of its repository.
Workspace == "ws"

RepoSlug == "repo"

PrId == "1"

DiffCacheKeys ==
    {KeyPullRequest(Workspace, RepoSlug, PrId), KeyPullRequest(Workspace, RepoSlug, "2"),
     KeyPullRequests(Workspace, RepoSlug, "{}")}

\* String.toLowerCase on the words of the vocabulary.
LowerWord(w) == IF w = "Emergency" THEN "emergency" ELSE w

ToLowerCase(text) == {LowerWord(w) : w \in text}

\* String.includes
Includes(text, word) == word \in text

NonEmpty(text) == text # {}

\* isEmergencyContactPR of the sanity check of the direct diff: title
\* (lower-cased) or source branch name.
IsEmergencyContactPR(pr) ==
    \/ Includes(ToLowerCase(pr.title), "emergency")
    \/ Includes(ToLowerCase(pr.title), "contact")
    \/ Includes(pr.branch, "emergency")
    \/ Includes(pr.branch, "contact")

\* isEmergencyContactPR of the commit loop: title only.
IsEmergencyContactTitle(pr) ==
    \/ Includes(ToLowerCase(pr.title), "emergency")
    \/ Includes(ToLowerCase(pr.title), "contact")

\* diffHasLearningFiles / hasIrrelevantContent
HasLearningFiles(body) ==
    \/ Includes(ToLowerCase(body), "learning-api")
    \/ Includes(ToLowerCase(body), "cpd")
    \/ Includes(ToLowerCase(body), "learningapi")

HasRelevantContent(body, msg) ==
    \/ Includes(ToLowerCase(body), "emergency")
    \/ Includes(ToLowerCase(body), "contact")
    \/ Includes(ToLowerCase(msg), "emergency")
    \/ Includes(ToLowerCase(msg), "contact")

ContentMismatch(pr, body) == IsEmergencyContactPR(pr) /\ HasLearningFiles(body)

\* Mutant: 403 is taken for an access issue as well.
Is404_Or403(status) == status = NotFound \/ status = 403

\* error.response?.status === 404
Is404(status) == status = NotFound

\* Mutant: one commit hash is enough.
HasBothHashes_Either(pr) == pr.srcHash \/ pr.dstHash

\* pr.source.commit?.hash && pr.destination.commit?.hash
HasBothHashes(pr) == pr.srcHash /\ pr.dstHash

\* Mutant: the catch of a fallback strategy lets non-404 errors through.
FallbackCatchSwallows_Only404(status) == status = NotFound

\* catch (branchError) / catch (commitError) / catch (singleCommitError) /
\* catch (commitListError): the empty handlers of the fallback strategies.
FallbackCatchSwallows(status) == TRUE

\* commit i is accepted by the commit loop.
CommitAccepted(pr, body, msg) ==
    /\ NonEmpty(body)
    /\ IF IsEmergencyContactTitle(pr)
       THEN HasRelevantContent(body, msg) /\ ~HasLearningFiles(body)
       ELSE TRUE

NoResult == [kind |-> "none", from |-> "none", err |-> "none", body |-> {}]

NoResponseYet == [kind |-> "none", status |-> NoResponse, body |-> {}]

DiffIdle ==
    /\ dpc = "idle"
    /\ dlog = <<>>
    /\ dlast = NoResponseYet
    /\ directStatus = NoResponse
    /\ validateStatus = NoResponse
    /\ dbody = {}
    /\ dpr = NoPr
    /\ dn = 0
    /\ di = 0
    /\ dmismatch = FALSE
    /\ dres = NoResult

\* getPullRequestDiffStat has not reached its catch block.
NoStatDiff == [kind |-> "none", text |-> <<<<>>>>]

StatIdle ==
    /\ sdiff = NoStatDiff
    /\ sfiles = <<>>

\* The call issues its next upstream request and suspends on it.
Proceed(kind) ==
    /\ dpc' = kind
    /\ dlog' = Append(dlog, kind)
    /\ dres' = dres

\* return <diff text>
ReturnDiff(from, body) ==
    /\ dpc' = "done"
    /\ dlog' = dlog
    /\ dres' = [kind |-> "diff", from |-> from, err |-> "none", body |-> body]

\* return `# Access Denied - PR #... Diff ...` (lines 993-1030)
ReturnAccessDenied ==
    /\ dpc' = "done"
    /\ dlog' = dlog
    /\ dres' = [kind |-> "denied", from |-> "none", err |-> "none", body |-> {"access", "denied"}]

\* The call rejects: "detailed" / "generic" are the EnhancedMcpError of
\* handleBitbucketError for an axios error / a plain Error, "raw" is an
\* axios error that leaves the catch block as it is.
Raise(err) ==
    /\ dpc' = "done"
    /\ dlog' = dlog
    /\ dres' = [kind |-> "raised", from |-> "none", err |-> err, body |-> {}]

\* catch (error) of lines 901-1040 for an error with the given status.
CatchDirect(status, axios) ==
    IF Is404(status) THEN Proceed("meta")
    ELSE Raise(IF axios THEN "detailed" ELSE "generic")

\* Mutant: only the list entry is deleted.
PurgePullRequest_ListOnly(c) == MapDelete(c, KeyPullRequests(Workspace, RepoSlug, ""))

\* Mutant: the call stores what it fetched under the key of the pull request.
PurgePullRequest_Stores(c) ==
    MapSet(c, KeyPullRequest(Workspace, RepoSlug, PrId), CacheEntry("v2", 100))

\* Lines 876-877: the two cache.delete calls that open getPullRequestDiff.
PurgePullRequest(c) ==
    MapDelete(MapDelete(c, KeyPullRequest(Workspace, RepoSlug, PrId)),
              KeyPullRequests(Workspace, RepoSlug, ""))

\* Lines 874-881: purge the cache entries, issue the direct diff request.
DiffStarts ==
    /\ dpc = "idle"
    /\ cache' = PurgePullRequest(cache)
    /\ dpc' = "direct"
    /\ dlog' = <<"direct">>
    /\ dlast' = NoResponseYet
    /\ directStatus' = NoResponse
    /\ validateStatus' = NoResponse
    /\ dbody' = {}
    /\ dpr' = NoPr
    /\ dn' = 0
    /\ di' = 0
    /\ dmismatch' = FALSE
    /\ dres' = NoResult

DiffStart == DiffStarts /\ UNCHANGED outsideDiff

\* Lines 881-884 and 901-905: the direct diff request completes.
DirectResponds(status, body) ==
    /\ dpc = "direct"
    /\ (status # Ok => body = {})
    /\ dlast' = [kind |-> "direct", status |-> status, body |-> body]
    /\ directStatus' = status
    /\ dbody' = body
    /\ IF status = Ok THEN Proceed("validate") ELSE CatchDirect(status, TRUE)
    /\ UNCHANGED <<validateStatus, dpr, dn, di, dmismatch, cache, outsideDiff>>

\* Lines 884-905: the metadata request of the sanity check completes.
ValidateResponds(status, pr) ==
    /\ dpc = "validate"
    /\ (status # Ok => pr = NoPr)
    /\ dlast' = [kind |-> "validate", status |-> status, body |-> {}]
    /\ validateStatus' = status
    /\ dmismatch' = (status = Ok /\ ContentMismatch(pr, dbody))
    /\ IF status # Ok THEN CatchDirect(status, TRUE)
       ELSE IF ContentMismatch(pr, dbody) THEN CatchDirect(NoResponse, FALSE)
       ELSE ReturnDiff("direct", dbody)
    /\ UNCHANGED <<directStatus, dbody, dpr, dn, di, cache, outsideDiff>>

\* Lines 905-912: the metadata request of the fallback path completes.
MetaResponds(status, pr) ==
    /\ dpc = "meta"
    /\ (status # Ok => pr = NoPr)
    /\ dlast' = [kind |-> "meta", status |-> status, body |-> {}]
    /\ dpr' = pr
    /\ IF status = Ok THEN Proceed("commits") ELSE Raise("raw")
    /\ UNCHANGED <<directStatus, validateStatus, dbody, dn, di, dmismatch, cache, outsideDiff>>

\* Lines 910-924 and 960-968: the commit list request completes.
CommitsResponds(status, n) ==
    /\ dpc = "commits"
    /\ (status # Ok => n = 0)
    /\ dlast' = [kind |-> "commits", status |-> status, body |-> {}]
    /\ dn' = n
    /\ di' = 0
    /\ IF status = Ok /\ n > 0 THEN Proceed("commit")
       ELSE IF status = Ok \/ FallbackCatchSwallows(status) THEN Proceed("branch")
       ELSE Raise("raw")
    /\ UNCHANGED <<directStatus, validateStatus, dbody, dpr, dmismatch, cache, outsideDiff>>

Min(a, b) == IF a < b THEN a ELSE b

\* Lines 919-968: the diff request of commit i completes.
CommitResponds(status, body, msg) ==
    /\ dpc = "commit"
    /\ (status # Ok => body = {})
    /\ dlast' = [kind |-> "commit", status |-> status, body |-> body]
    /\ IF status = Ok /\ CommitAccepted(dpr, body, msg)
       THEN ReturnDiff("commit", body) /\ di' = di
       ELSE IF status # Ok /\ ~FallbackCatchSwallows(status)
       THEN Raise("raw") /\ di' = di
       ELSE /\ di' = di + 1
            /\ IF di + 1 < Min(dn, CommitLoopMax) THEN Proceed("commit")
               ELSE Proceed("branch")
    /\ UNCHANGED <<directStatus, validateStatus, dbody, dpr, dn, dmismatch, cache, outsideDiff>>

\* Lines 977-993: the commit-range strategy is entered.
EnterCommitRange == IF HasBothHashes(dpr) THEN Proceed("range") ELSE ReturnAccessDenied

\* Lines 966-982: the branch comparison request completes.
BranchResponds(status, body) ==
    /\ dpc = "branch"
    /\ (status # Ok => body = {})
    /\ dlast' = [kind |-> "branch", status |-> status, body |-> body]
    /\ IF status = Ok /\ NonEmpty(body) THEN ReturnDiff("branch", body)
       ELSE IF status = Ok \/ FallbackCatchSwallows(status) THEN EnterCommitRange
       ELSE Raise("raw")
    /\ UNCHANGED <<directStatus, validateStatus, dbody, dpr, dn, di, dmismatch, cache,
                   outsideDiff>>

\* Lines 980-1030: the commit range request completes.
RangeResponds(status, body) ==
    /\ dpc = "range"
    /\ (status # Ok => body = {})
    /\ dlast' = [kind |-> "range", status |-> status, body |-> body]
    /\ IF status = Ok /\ NonEmpty(body) THEN ReturnDiff("range", body)
       ELSE IF status = Ok \/ FallbackCatchSwallows(status) THEN ReturnAccessDenied
       ELSE Raise("raw")
    /\ UNCHANGED <<directStatus, validateStatus, dbody, dpr, dn, di, dmismatch, cache,
                   outsideDiff>>

\* The caller takes the result and the call's locals are gone; the client
\* can be called again.
DiffReturn ==
    /\ dpc = "done"
    /\ dpc' = "idle"
    /\ dlog' = <<>>
    /\ dlast' = NoResponseYet
    /\ directStatus' = NoResponse
    /\ validateStatus' = NoResponse
    /\ dbody' = {}
    /\ dpr' = NoPr
    /\ dn' = 0
    /\ di' = 0
    /\ dmismatch' = FALSE
    /\ dres' = NoResult
    /\ sdiff' = NoStatDiff
    /\ sfiles' = <<>>
    /\ UNCHANGED <<cache, outsideStat>>

Outcomes == {Ok} \cup FetchFailures

\* A request of a running call of getPullRequestDiff completes.
DiffResponds ==
    \/ \E status \in Outcomes, body \in Bodies : DirectResponds(status, body)
    \/ \E status \in Outcomes, pr \in PrResponses \cup {NoPr} : ValidateResponds(status, pr)
    \/ \E status \in Outcomes, pr \in PrResponses \cup {NoPr} : MetaResponds(status, pr)
    \/ \E status \in Outcomes, n \in 0..MaxCommits : CommitsResponds(status, n)
    \/ \E status \in Outcomes, body \in Bodies, msg \in CommitMessages :
          CommitResponds(status, body, msg)
    \/ \E status \in Outcomes, body \in Bodies : BranchResponds(status, body)
    \/ \E status \in Outcomes, body \in Bodies : RangeResponds(status, body)

DiffNext == DiffStart \/ DiffResponds \/ DiffReturn

\* The cache a call can find: any of the keys of the repository, fresh.
DiffCaches ==
    {[k \in present |-> [data |-> "v1", timestamp |-> 0, ttl |-> 100]] :
        present \in SUBSET DiffCacheKeys}

-----------------------------------------------------------------------------
(* Diff text.  A string is the sequence of its characters and a text is    *)
(* the sequence of its lines (String.split('\n')); the keyword             *)
(* 'diff --git' and the fixed parts of messages are single symbols.        *)

DiffGit == <<"diff --git">>

StartsWith(str, prefix) ==
    Len(str) >= Len(prefix) /\ SubSeq(str, 1, Len(prefix)) = prefix

EndsWith(str, suffix) ==
    Len(str) >= Len(suffix) /\ SubSeq(str, Len(str) - Len(suffix) + 1, Len(str)) = suffix

\* String.includes
IncludesStr(str, part) ==
    \E i \in 1..(Len(str) - Len(part) + 1) : SubSeq(str, i, i + Len(part) - 1) = part

IsSpace(ch) == ch = " " \/ ch = "\t"

\* String.trim().length === 0 of one line
BlankLine(line) == \A i \in 1..Len(line) : IsSpace(line[i])

\* replace(/^\/+/, '')
RECURSIVE StripLeadingSlashes(_)
StripLeadingSlashes(path) ==
    IF Len(path) > 0 /\ path[1] = "/" THEN StripLeadingSlashes(Tail(path)) ELSE path

\* replace(/\/+$/, '')
RECURSIVE StripTrailingSlashes(_)
StripTrailingSlashes(path) ==
    IF Len(path) > 0 /\ path[Len(path)] = "/"
    THEN StripTrailingSlashes(SubSeq(path, 1, Len(path) - 1))
    ELSE path

NormalizePath(path) == StripTrailingSlashes(StripLeadingSlashes(path))

\* The part of str after its last sep: str.split(sep).pop()
RECURSIVE LastPart(_, _)
LastPart(str, sep) ==
    IF \E i \in 1..Len(str) : str[i] = sep
    THEN LastPart(Tail(str), sep)
    ELSE str

\* String.match(/diff --git a\/(.+?) b\/(.+?)(?:\s|$)/): the leftmost match,
\* both groups lazy.  Start positions of 'diff --git a/' in the line.
HeaderStarts(line) ==
    {s \in 1..Len(line) :
        /\ s + 3 <= Len(line)
        /\ SubSeq(line, s, s + 3) = DiffGit \o <<" ", "a", "/">>}

\* For a match starting at s: the ends k of group 1 after which ' b/' and at
\* least one more character follow.
Group1Ends(line, s) ==
    {k \in (s + 4)..Len(line) :
        /\ k + 4 <= Len(line)
        /\ SubSeq(line, k + 1, k + 3) = <<" ", "b", "/">>}

SetMin(S) == CHOOSE x \in S : \A y \in S : x <= y

\* Group 2 starts at q and runs, lazily, up to the first position followed
\* by white space or by the end of the line.
Group2End(line, q) ==
    SetMin({j \in q..Len(line) : j = Len(line) \/ IsSpace(line[j + 1])})

NoMatch == [ok |-> FALSE, pathA |-> <<>>, pathB |-> <<>>]

HeaderMatch(line) ==
    LET starts == {s \in HeaderStarts(line) : Group1Ends(line, s) # {}}
    IN  IF starts = {} THEN NoMatch
        ELSE LET s == SetMin(starts)
                 k == SetMin(Group1Ends(line, s))
             IN  [ok |-> TRUE,
                  pathA |-> SubSeq(line, s + 4, k),
                  pathB |-> SubSeq(line, k + 4, Group2End(line, k + 4))]

\* const pathsToCheck = [pathA, pathB, normalizedTargetPath]
PathsToCheck(pathA, pathB, normalizedTargetPath) == <<pathA, pathB, normalizedTargetPath>>

\* The callback of pathsToCheck.some(...)
PathMatches(path, target, normalizedTargetPath) ==
    LET normalizedPath == NormalizePath(path)
    IN  \/ normalizedPath = normalizedTargetPath
        \/ EndsWith(normalizedPath, <<"/">> \o normalizedTargetPath)
        \/ EndsWith(normalizedTargetPath, <<"/">> \o normalizedPath)
        \/ IncludesStr(path, target)
        \/ IncludesStr(target, path)

\* inTargetFile for a line that starts with 'diff --git'
InTargetFile(line, target) ==
    LET match == HeaderMatch(line)
        normalizedTargetPath == NormalizePath(target)
        pathsToCheck == PathsToCheck(match.pathA, match.pathB, normalizedTargetPath)
    IN  IF match.ok
        THEN \E i \in 1..Len(pathsToCheck) :
                 PathMatches(pathsToCheck[i], target, normalizedTargetPath)
        ELSE \/ IncludesStr(line, target)
             \/ IncludesStr(target, LastPart(line, " "))

\* The scan of the lines (for-loop of lines 722-765), from line i on.
\* blocks: fileBlocks, block: currentBlock, inTarget: inTargetFile,
\* seen: matchedPaths.length.
RECURSIVE FullPathScan(_, _, _, _)
FullPathScan(lines, i, target, st) ==
    IF i > Len(lines)
    THEN [st EXCEPT !.blocks = IF st.inTarget /\ Len(st.block) > 0
                               THEN Append(st.blocks, st.block) ELSE st.blocks]
    ELSE IF StartsWith(lines[i], DiffGit)
    THEN FullPathScan(lines, i + 1, target,
             [blocks |-> IF st.inTarget /\ Len(st.block) > 0
                         THEN Append(st.blocks, st.block) ELSE st.blocks,
              block |-> <<lines[i]>>,
              inTarget |-> InTargetFile(lines[i], target),
              seen |-> IF HeaderMatch(lines[i]).ok THEN st.seen + 2 ELSE st.seen])
    ELSE FullPathScan(lines, i + 1, target, [st EXCEPT !.block = Append(st.block, lines[i])])

\* The lenient scan (for-loop of lines 785-800).
RECURSIVE LenientScan(_, _, _, _)
LenientScan(lines, i, fileName, st) ==
    IF i > Len(lines)
    THEN [st EXCEPT !.blocks = IF st.inTarget /\ Len(st.block) > 0
                               THEN Append(st.blocks, st.block) ELSE st.blocks]
    ELSE IF StartsWith(lines[i], DiffGit)
    THEN LenientScan(lines, i + 1, fileName,
             [blocks |-> IF st.inTarget /\ Len(st.block) > 0
                         THEN Append(st.blocks, st.block) ELSE st.blocks,
              block |-> <<lines[i]>>,
              inTarget |-> IncludesStr(lines[i], fileName),
              seen |-> st.seen])
    ELSE LenientScan(lines, i + 1, fileName, [st EXCEPT !.block = Append(st.block, lines[i])])

ScanStart == [blocks |-> <<>>, block |-> <<>>, inTarget |-> FALSE, seen |-> 0]

\* blocks.join('\n\n'), each block being block.join('\n'): the lines of the
\* joined text.  No block gives the empty string, which is one empty line.
RECURSIVE JoinBlocks(_)
JoinBlocks(blocks) ==
    IF Len(blocks) = 0 THEN <<<<>>>>
    ELSE IF Len(blocks) = 1 THEN blocks[1]
    ELSE blocks[1] \o <<<<>>>> \o JoinBlocks(Tail(blocks))

\* result.trim().length === 0
BlankText(text) == \A i \in 1..Len(text) : BlankLine(text[i])

\* filePath.split('/').pop() || filePath
FileName(target) == IF LastPart(target, "/") = <<>> THEN target ELSE LastPart(target, "/")

NoChangesFound(target, seen) ==
    << <<"No changes found for file: ">> \o target,
       <<>>,
       <<"Note: Searched in diff containing ", ToString(seen),
         " file paths. Try using just the filename or a partial path.">> >>

ExtractFileFromDiff(lines, target) ==
    LET scan == FullPathScan(lines, 1, target, ScanStart)
        result == JoinBlocks(scan.blocks)
        lenient == LenientScan(lines, 1, FileName(target), ScanStart)
    IN  IF ~BlankText(result) THEN result
        ELSE IF Len(lenient.blocks) > 0 THEN JoinBlocks(lenient.blocks)
        ELSE NoChangesFound(target, scan.seen)

\* ---- the inputs the function is exercised with

MaxSections == 2

SrcA == <<"s", "r", "c", "/", "a", ".", "t", "s">>

SrcB == <<"s", "r", "c", "/", "b", ".", "t", "s">>

LibA == <<"l", "i", "b", "/", "a", ".", "t", "s">>

Header(pathA, pathB) == DiffGit \o <<" ", "a", "/">> \o pathA \o <<" ", "b", "/">> \o pathB

HeaderLines ==
    {Header(SrcA, SrcA), Header(SrcB, SrcB), Header(LibA, LibA), Header(SrcB, LibA),
     DiffGit \o <<" ", "x">>}

HunkLines == {<< <<"+", "x">> >>, << <<"-", "y">>, <<" ", "z">> >>}

Sections == {<<h>> \o body : h \in HeaderLines, body \in HunkLines}

RECURSIVE Concat(_)
Concat(seqs) == IF Len(seqs) = 0 THEN <<>> ELSE seqs[1] \o Concat(Tail(seqs))

\* A diff of up to MaxSections sections; the empty diff is one empty line.
DiffTexts ==
    {IF Len(ss) = 0 THEN <<<<>>>> ELSE Concat(ss) :
        ss \in UNION {[1..n -> Sections] : n \in 0..MaxSections}}

TargetPaths ==
    {SrcA, <<"/">> \o SrcA, SrcB, <<"a", ".", "t", "s">>, <<"c", ".", "t", "s">>}

\* options.context_lines left out
NoContextLines == 0 - 1

NoFilterOptions == [ignore_whitespace |-> FALSE, context_lines |-> NoContextLines]

\* Nothing has been filtered by applyDiffFilters.
FilterIdle ==
    /\ fopts = NoFilterOptions
    /\ filtered = <<>>
    /\ filteredAgain = <<>>

TextIdle ==
    /\ xpc = "input"
    /\ fullDiff = <<<<>>>>
    /\ filePath = <<>>
    /\ extracted = <<>>
    /\ extractedAgain = <<>>
    /\ parsed = <<>>
    /\ FilterIdle

Extract ==
    /\ xpc = "input"
    /\ xpc' = "done"
    /\ extracted' = ExtractFileFromDiff(fullDiff, filePath)
    /\ UNCHANGED <<fullDiff, filePath, extractedAgain, parsed, fopts, filtered, filteredAgain, outsideText>>

\* The function applied to the text it returned, for the same path.
ExtractAgain ==
    /\ xpc = "done"
    /\ xpc' = "again"
    /\ extractedAgain' = ExtractFileFromDiff(extracted, filePath)
    /\ UNCHANGED <<fullDiff, filePath, extracted, parsed, fopts, filtered, filteredAgain, outsideText>>

ExtractNext == Extract \/ ExtractAgain

-----------------------------------------------------------------------------
(* parseDiffForFileStats (lines 1065-1117).                                *)

\* String.match(/diff --git a\/(.+?) b\/(.+)/): the first group lazy, the
\* second one greedy, to the end of the line.
StatHeaderMatch(line) ==
    LET starts == {s \in HeaderStarts(line) : Group1Ends(line, s) # {}}
    IN  IF starts = {} THEN NoMatch
        ELSE LET s == SetMin(starts)
                 k == SetMin(Group1Ends(line, s))
             IN  [ok |-> TRUE,
                  pathA |-> SubSeq(line, s + 4, k),
                  pathB |-> SubSeq(line, k + 4, Len(line))]

\* old: null / new: null
NoPath == <<"null">>

NewFileMode == <<"new file mode">>

DeletedFileMode == <<"deleted file mode">>

\* Mutant: the comparison of the two paths is inverted.
HeaderStatus_Inverted(pathA, pathB) == IF pathA = pathB THEN "renamed" ELSE "modified"

\* match[1] === match[2] ? 'modified' : 'renamed'
HeaderStatus(pathA, pathB) == IF pathA = pathB THEN "modified" ELSE "renamed"

\* Lines 1080-1086: the record a header starts.
NewDiffStat(match) ==
    [old |-> match.pathA, new |-> match.pathB,
     status |-> HeaderStatus(match.pathA, match.pathB),
     lines_added |-> 0, lines_removed |-> 0]

\* Mutant: the file markers '+++' and '---' are counted too.
CountsAsAdded_All(line) == StartsWith(line, <<"+">>)

CountsAsAdded(line) == StartsWith(line, <<"+">>) /\ ~StartsWith(line, <<"+", "+", "+">>)

CountsAsRemoved(line) == StartsWith(line, <<"-">>) /\ ~StartsWith(line, <<"-", "-", "-">>)

\* Lines 1090-1108: what a line that is no header does to currentFile.
CountLine(file, line) ==
    LET counted ==
            IF CountsAsAdded(line) THEN [file EXCEPT !.lines_added = @ + 1]
            ELSE IF CountsAsRemoved(line) THEN [file EXCEPT !.lines_removed = @ + 1]
            ELSE file
        created ==
            IF StartsWith(line, NewFileMode)
            THEN [counted EXCEPT !.status = "added", !.old = NoPath]
            ELSE counted
    IN  IF StartsWith(line, DeletedFileMode)
        THEN [created EXCEPT !.status = "removed", !.new = NoPath]
        ELSE created

\* n copies of the record: the list holds the object once per push.
Pushed(file, n) == [i \in 1..n |-> file]

\* The loop of lines 1070-1109 from line i on, and the push of line 1112.
\* st.files: the records of the files left behind; st.has: currentFile is
\* not null; st.file: currentFile; st.pushes: how often currentFile is in
\* the list already (a header that does not match the pattern pushes
\* currentFile and keeps it).
RECURSIVE StatScan(_, _, _)
StatScan(lines, i, st) ==
    IF i > Len(lines)
    THEN IF st.has THEN st.files \o Pushed(st.file, st.pushes + 1) ELSE st.files
    ELSE IF StartsWith(lines[i], DiffGit)
    THEN LET match == StatHeaderMatch(lines[i])
             pushes == IF st.has THEN st.pushes + 1 ELSE 0
         IN  IF match.ok
             THEN StatScan(lines, i + 1,
                      [files |-> IF st.has THEN st.files \o Pushed(st.file, pushes) ELSE st.files,
                       has |-> TRUE, file |-> NewDiffStat(match), pushes |-> 0])
             ELSE StatScan(lines, i + 1, [st EXCEPT !.pushes = pushes])
    ELSE IF st.has
    THEN StatScan(lines, i + 1, [st EXCEPT !.file = CountLine(st.file, lines[i])])
    ELSE StatScan(lines, i + 1, st)

NoDiffStat == [old |-> NoPath, new |-> NoPath, status |-> "none", lines_added |-> 0, lines_removed |-> 0]

ParseDiffForFileStats(lines) ==
    StatScan(lines, 1, [files |-> <<>>, has |-> FALSE, file |-> NoDiffStat, pushes |-> 0])

\* ---- the inputs the function is exercised with

MaxLines == 4

StatLines ==
    {Header(SrcA, SrcA),
     Header(SrcB, LibA),
     DiffGit \o <<" ", "x">>,
     NewFileMode \o <<" ", "100644">>,
     DeletedFileMode \o <<" ", "100644">>,
     <<"-", "-", "-", " ", "a", "/">> \o SrcA,
     <<"+", "+", "+", " ", "b", "/">> \o SrcA,
     <<"+", "x">>,
     <<"-", "y">>,
     <<" ", "z">>}

StatTexts == UNION {[1..n -> StatLines] : n \in 1..MaxLines}

Parse ==
    /\ xpc = "input"
    /\ xpc' = "done"
    /\ parsed' = ParseDiffForFileStats(fullDiff)
    /\ UNCHANGED <<fullDiff, filePath, extracted, extractedAgain, fopts, filtered, filteredAgain, outsideText>>

ParseNext == Parse

\* ---- getPullRequestDiffStat called on its own (lines 1043-1063), as the
\* getPullRequestFiles tool calls it.  The call of getPullRequestDiff in its
\* catch block starts at once (purge, direct diff request) and its outcome
\* is one step.

\* Lines 1043-1047: issue the diffstat request; the cache is not consulted.
StatStart ==
    /\ dpc = "idle"
    /\ dpc' = "diffstat"
    /\ dlog' = <<"diffstat">>
    /\ UNCHANGED <<dlast, directStatus, validateStatus, dbody, dpr, dn, di, dmismatch, dres,
                   cache, outsideDiff>>

\* Lines 1048-1052: the diffstat request completes: return the values, or
\* enter getPullRequestDiff (lines 876-881).
StatResponds(status) ==
    /\ dpc = "diffstat"
    /\ dlast' = [kind |-> "diffstat", status |-> status, body |-> {}]
    /\ IF status = Ok
       THEN /\ dpc' = "done"
            /\ dlog' = dlog
            /\ dres' = [kind |-> "stats", from |-> "diffstat", err |-> "none", body |-> {}]
            /\ cache' = cache
       ELSE /\ Proceed("statDiff")
            /\ cache' = PurgePullRequest(cache)
    /\ UNCHANGED <<directStatus, validateStatus, dbody, dpr, dn, di, dmismatch, outsideDiff>>

\* Lines 993-1030: the text getPullRequestDiff returns when every fallback
\* strategy failed, line by line; the interpolated values are symbols of
\* their own, "bq" is a backquote and the pictographs of the headings are
\* left out.
AccessDeniedReport ==
    <<<<"# Access Denied - PR #", PrId, " Diff">>,
      <<>>,
      <<"**Cannot retrieve diff for this pull request**">>,
      <<>>,
      <<"**PR Details:**">>,
      <<"- **Title:** ", "title">>,
      <<"- **Author:** ", "display_name", " (@", "username", ")">>,
      <<"- **Branch:** ", "source", " -> ", "destination">>,
      <<"- **State:** ", "OPEN">>,
      <<>>,
      <<"**Reason:** Limited access to PR diff content.">>,
      <<>>,
      <<"**Solutions for Code Review Access:**">>,
      <<>>,
      <<"### **For Repository Maintainers:**">>,
      <<"1. **Add as reviewer:** Ask ", "display_name", " to add you as a reviewer">>,
      <<"2. **Repository access:** Request collaborator access to the repository">>,
      <<"3. **Team permissions:** Ensure your team has appropriate repository permissions">>,
      <<>>,
      <<"### **Alternative Access Methods:**">>,
      <<"1. **Local git access:**">>,
      <<"   ", "bq", "bq", "bq", "bash">>,
      <<"   git fetch origin ", "source">>,
      <<"   git diff ", "destination", "...", "source">>,
      <<"   ", "bq", "bq", "bq">>,
      <<>>,
      <<"2. **Bitbucket web interface:** Use the PR page directly at:">>,
      <<"   ", "bq", "https://bitbucket.org/", Workspace, "/", RepoSlug, "/pull-requests/", PrId, "bq">>,
      <<>>,
      <<"3. **Ask for diff export:** Request the PR author to export/share the diff">>,
      <<>>,
      <<"**Technical Details:**">>,
      <<"- PR diff endpoint: 404 (access denied)  ">>,
      <<"- Branch comparison: Failed">>,
      <<"- Commit range access: Failed">>,
      <<"- This suggests limited repository permissions for your API token">>,
      <<>>,
      <<"**Note:** The MCP tried multiple fallback methods but all were blocked by permissions.">>>>

\* The diffs getPullRequestDiff is taken to return to line 1052: the empty
\* diff, one file, two files.
StatDiffTexts ==
    {<<<<>>>>,
     <<Header(SrcA, SrcA), <<"+", "x">>>>,
     <<Header(SrcA, SrcA), <<"-", "y">>, Header(SrcB, LibA), <<"+", "x">>>>}

\* The ways the getPullRequestDiff of line 1052 ends: with a diff, with the
\* report of lines 993-1030, or by throwing.
StatEndings ==
    {[kind |-> "diff", text |-> text] : text \in StatDiffTexts}
        \cup {[kind |-> "denied", text |-> AccessDeniedReport],
              [kind |-> "raised", text |-> <<<<>>>>]}

\* Lines 1052-1060: getPullRequestDiff returns a text, which is parsed
\* whatever it is (line 1053), or throws, and handleBitbucketError throws
\* for the error of the diffstat request.
StatDiffEnds(ending) ==
    /\ dpc = "statDiff"
    /\ dpc' = "done"
    /\ dlog' = dlog
    /\ sdiff' = ending
    /\ IF ending.kind = "raised"
       THEN /\ dres' = [kind |-> "raised", from |-> "none", err |-> "detailed", body |-> {}]
            /\ sfiles' = <<>>
       ELSE /\ dres' = [kind |-> "stats", from |-> "parsed", err |-> "none", body |-> {}]
            /\ sfiles' = ParseDiffForFileStats(ending.text)
    /\ UNCHANGED <<dlast, directStatus, validateStatus, dbody, dpr, dn, di, dmismatch,
                   cache, outsideStat>>

StatNext ==
    \/ StatStart
    \/ \E status \in Outcomes : StatResponds(status)
    \/ \E ending \in StatEndings : StatDiffEnds(ending)

DiffCallsNext == DiffNext \/ StatNext

-----------------------------------------------------------------------------
(* applyDiffFilters (lines 814-872).  A text is the list of lines          *)
(* split('\n') makes of it, so the empty text is one empty line.           *)

\* Array.join('\n') read back as lines: no line at all joins to the empty
\* text, which is one empty line.
JoinLines(lines) == IF lines = <<>> THEN <<<<>>>> ELSE lines

\* lines 823-826 and 852-854: a line the filters keep whatever it holds
FileOrHunkHeader(line) ==
    \/ StartsWith(line, DiffGit)
    \/ StartsWith(line, <<"-", "-", "-">>)
    \/ StartsWith(line, <<"+", "+", "+">>)
    \/ StartsWith(line, <<"@", "@">>)

\* A variant of WhitespaceOnlyChange that does not look at the payload.
WhitespaceOnlyChange_AnyPayload(line) ==
    StartsWith(line, <<"+">>) \/ StartsWith(line, <<"-">>)

\* lines 830-831: (startsWith('+') || startsWith('-')) && substring(1).trim() === ''
WhitespaceOnlyChange(line) ==
    /\ StartsWith(line, <<"+">>) \/ StartsWith(line, <<"-">>)
    /\ BlankLine(Tail(line))

\* the callback of lines.filter (lines 821-835)
KeepsLine(line) ==
    IF FileOrHunkHeader(line) THEN TRUE
    ELSE IF WhitespaceOnlyChange(line) THEN FALSE
    ELSE TRUE

\* lines 819-836
IgnoreWhitespace(text) == JoinLines(SelectSeq(text, KeepsLine))

ContextStart == [filteredLines |-> <<>>, inHunk |-> FALSE, contextCount |-> 0]

\* A variant of KeepsContext that keeps one context line more.
KeepsContext_OneMore(contextCount, context_lines) == contextCount <= context_lines

\* line 862: contextCount < options.context_lines
KeepsContext(contextCount, context_lines) == contextCount < context_lines

\* the loop of lines 848-866
RECURSIVE ContextScan(_, _, _, _)
ContextScan(lines, i, context_lines, st) ==
    IF i > Len(lines) THEN st
    ELSE LET line == lines[i]
             push == Append(st.filteredLines, line)
         IN ContextScan(lines, i + 1, context_lines,
                IF StartsWith(line, <<"@", "@">>)
                THEN [filteredLines |-> push, inHunk |-> TRUE, contextCount |-> 0]
                ELSE IF \/ ~st.inHunk
                        \/ StartsWith(line, DiffGit)
                        \/ StartsWith(line, <<"-", "-", "-">>)
                        \/ StartsWith(line, <<"+", "+", "+">>)
                THEN [st EXCEPT !.filteredLines = push]
                ELSE IF StartsWith(line, <<"+">>) \/ StartsWith(line, <<"-">>)
                THEN [st EXCEPT !.filteredLines = push, !.contextCount = 0]
                ELSE IF KeepsContext(st.contextCount, context_lines)
                THEN [st EXCEPT !.filteredLines = push, !.contextCount = @ + 1]
                ELSE st)

\* lines 839-869
LimitContext(text, context_lines) ==
    JoinLines(ContextScan(text, 1, context_lines, ContextStart).filteredLines)

ApplyDiffFilters(text, options) ==
    LET afterWhitespace == IF options.ignore_whitespace THEN IgnoreWhitespace(text) ELSE text
    IN  IF options.context_lines # NoContextLines /\ options.context_lines >= 0
        THEN LimitContext(afterWhitespace, options.context_lines)
        ELSE afterWhitespace

\* ---- the inputs the function is exercised with

MaxFilterLines == 3

FilterLines ==
    {<<>>,
     <<"+">>,
     <<"-", " ", "\t">>,
     <<"+", " ", "x">>,
     <<"-", "y">>,
     <<"-", "-">>,
     <<" ", "z">>,
     <<"-", "-", "-">>,
     <<"+", "+", "+">>,
     <<"@", "@">>,
     <<"index">>,
     DiffGit \o <<" ", "a">>}

FilterTexts == UNION {[1..n -> FilterLines] : n \in 1..MaxFilterLines}

FilterOptions == [ignore_whitespace : BOOLEAN, context_lines : {NoContextLines, 0, 1, 10}]

Filter ==
    /\ xpc = "input"
    /\ xpc' = "filtered"
    /\ filtered' = ApplyDiffFilters(fullDiff, fopts)
    /\ UNCHANGED <<fullDiff, filePath, extracted, extractedAgain, parsed, fopts, filteredAgain,
                   outsideText>>

\* The function applied to the text it returned, with the same options.
FilterAgain ==
    /\ xpc = "filtered"
    /\ xpc' = "refiltered"
    /\ filteredAgain' = ApplyDiffFilters(filtered, fopts)
    /\ UNCHANGED <<fullDiff, filePath, extracted, extractedAgain, parsed, fopts, filtered,
                   outsideText>>

FilterNext == Filter \/ FilterAgain

-----------------------------------------------------------------------------
(* getPullRequestDiffEnhanced, called without file_path (the branch of     *)
(* lines 541-548 is not taken), and getPullRequestDiffStat.  A diff text   *)
(* is known here by its length in characters and by the number of file     *)
(* sections parseDiffForFileStats finds in it.  A call of                  *)
(* getPullRequestDiff is one step: it purges the cache entries and either  *)
(* returns a text (a diff or the access report) or throws.                 *)

MaxFiles == 12

DefaultMaxSize == 20000

CharsPerToken == 4

ListedMax == 10

MostChangedMax == 5

\* options.max_size left out (or 0: both are falsy)
NoMaxSize == 0

MaxSizeOptions == {NoMaxSize, 1000, 20000}

EnhancedOptions ==
    [max_size : MaxSizeOptions, context_lines : {NoContextLines, 3}, ignore_whitespace : BOOLEAN]

DiffLengths == {0, 4000, 4001, 80000, 80001, 100000}

DiffSummaries == [len : DiffLengths, files : {0, 2, MaxFiles - 1}]

NoText == [len |-> 0 - 1, files |-> 0]

NoOptions == [max_size |-> NoMaxSize, context_lines |-> NoContextLines, ignore_whitespace |-> FALSE]

\* const MAX_TOKEN_SIZE = options.max_size || 20000
MaxTokenSize(options) ==
    IF options.max_size = NoMaxSize THEN DefaultMaxSize ELSE options.max_size

\* A variant of WithinLimit: the size is taken after the filters, which
\* leave at most half of a text they are applied to.
WithinLimit_AfterFilters(text, options) ==
    (IF options.ignore_whitespace \/ options.context_lines # NoContextLines
     THEN text.len \div 2 ELSE text.len) <= CharsPerToken * MaxTokenSize(options)

\* estimatedTokens <= MAX_TOKEN_SIZE, with estimatedTokens = fullDiff.length / 4
WithinLimit(text, options) == text.len <= CharsPerToken * MaxTokenSize(options)

\* Math.round(estimatedTokens)
RoundedTokens(text) == (text.len + 2) \div CharsPerToken

\* Array.slice(0, end)
SliceTo(arr, end) == SubSeq(arr, 1, IF Len(arr) < end THEN Len(arr) ELSE end)

\* applyDiffFilters(diff, options): the text the filters of the options make
\* of the diff, known by the diff and the two options the filters read.
FilteredText(text, options) ==
    [of |-> text,
     ignore_whitespace |-> options.ignore_whitespace,
     context_lines |-> options.context_lines]

\* A diffstat of n files; file i stands for its entry.
DiffStatOf(n) == [i \in 1..n |-> i]

NoFilteredText == FilteredText(NoText, NoOptions)

NoEnhancedResult ==
    [kind |-> "none", truncated |-> FALSE, diff |-> NoFilteredText, tokens |-> 0, limit |-> 0,
     total |-> 0, listed |-> <<>>, more |-> FALSE, remainder |-> 0, mostChanged |-> 0,
     files_list |-> <<>>]

\* Lines 557-560 and 607-610: { diff: applyDiffFilters(...), truncated: false }
DiffResult(text, options) ==
    [NoEnhancedResult EXCEPT !.kind = "diff", !.diff = FilteredText(text, options)]

\* Lines 565-602: the 'too large' message and { ..., truncated: true, files_list }
SummaryResult(text, options, diffStat) ==
    [NoEnhancedResult EXCEPT
        !.kind = "summary",
        !.truncated = TRUE,
        !.tokens = RoundedTokens(text),
        !.limit = MaxTokenSize(options),
        !.total = Len(diffStat),
        !.listed = SliceTo(diffStat, ListedMax),
        !.more = Len(diffStat) > ListedMax,
        !.remainder = IF Len(diffStat) > ListedMax THEN Len(diffStat) - ListedMax ELSE 0,
        !.mostChanged = Len(SliceTo(diffStat, MostChangedMax)),
        !.files_list = diffStat]

EnhancedIdle ==
    /\ epc = "idle"
    /\ eopts = NoOptions
    /\ efull = NoText
    /\ efetches = 0
    /\ eres = NoEnhancedResult

\* Lines 537-551: the call enters and calls getPullRequestDiff.
EnhancedStart(options) ==
    /\ epc = "idle"
    /\ epc' = "fetch"
    /\ eopts' = options
    /\ efull' = NoText
    /\ efetches' = 0
    /\ eres' = NoEnhancedResult
    /\ UNCHANGED <<cache, outsideEnhanced>>

\* Lines 551-564: getPullRequestDiff returns; the size decision.
FullDiffReturns(text) ==
    /\ epc = "fetch"
    /\ cache' = PurgePullRequest(cache)
    /\ efetches' = efetches + 1
    /\ efull' = text
    /\ IF WithinLimit(text, eopts)
       THEN epc' = "done" /\ eres' = DiffResult(text, eopts)
       ELSE epc' = "stat" /\ eres' = eres
    /\ UNCHANGED <<eopts, outsideEnhanced>>

\* Lines 551 and 604-606: getPullRequestDiff throws; the catch block calls it again.
FullDiffThrows ==
    /\ epc = "fetch"
    /\ cache' = PurgePullRequest(cache)
    /\ efetches' = efetches + 1
    /\ epc' = "catch"
    /\ UNCHANGED <<eopts, efull, eres, outsideEnhanced>>

\* Lines 1045-1052 and 565-602: the diffstat request completes; values || [].
DiffStatResponds(status, n) ==
    /\ epc = "stat"
    /\ IF status = Ok
       THEN epc' = "done" /\ eres' = SummaryResult(efull, eopts, DiffStatOf(n))
       ELSE n = 0 /\ epc' = "statFallback" /\ eres' = eres
    /\ UNCHANGED <<eopts, efull, efetches, cache, outsideEnhanced>>

\* Lines 1052-1053 and 565-602: the diff fetched for the statistics returns.
StatFallbackReturns(text) ==
    /\ epc = "statFallback"
    /\ cache' = PurgePullRequest(cache)
    /\ efetches' = efetches + 1
    /\ epc' = "done"
    /\ eres' = SummaryResult(efull, eopts, DiffStatOf(text.files))
    /\ UNCHANGED <<eopts, efull, outsideEnhanced>>

\* Lines 1054-1060 and 604-606: it throws, handleBitbucketError throws, the
\* catch block calls getPullRequestDiff again.
StatFallbackThrows ==
    /\ epc = "statFallback"
    /\ cache' = PurgePullRequest(cache)
    /\ efetches' = efetches + 1
    /\ epc' = "catch"
    /\ UNCHANGED <<eopts, efull, eres, outsideEnhanced>>

\* Lines 606-610: the call of the catch block returns.
CatchDiffReturns(text) ==
    /\ epc = "catch"
    /\ cache' = PurgePullRequest(cache)
    /\ efetches' = efetches + 1
    /\ efull' = text
    /\ epc' = "done"
    /\ eres' = DiffResult(text, eopts)
    /\ UNCHANGED <<eopts, outsideEnhanced>>

\* Line 606: the call of the catch block throws; the error leaves the method.
CatchDiffThrows ==
    /\ epc = "catch"
    /\ cache' = PurgePullRequest(cache)
    /\ efetches' = efetches + 1
    /\ epc' = "done"
    /\ eres' = [NoEnhancedResult EXCEPT !.kind = "raise"]
    /\ UNCHANGED <<eopts, efull, outsideEnhanced>>

\* The caller has the result; the method can be called again.
EnhancedReturn ==
    /\ epc = "done"
    /\ epc' = "idle"
    /\ eopts' = NoOptions
    /\ efull' = NoText
    /\ efetches' = 0
    /\ eres' = NoEnhancedResult
    /\ UNCHANGED <<cache, outsideEnhanced>>

EnhancedNext ==
    \/ \E options \in EnhancedOptions : EnhancedStart(options)
    \/ \E text \in DiffSummaries : FullDiffReturns(text)
    \/ FullDiffThrows
    \/ \E status \in Outcomes, n \in 0..MaxFiles : DiffStatResponds(status, n)
    \/ \E text \in DiffSummaries : StatFallbackReturns(text)
    \/ StatFallbackThrows
    \/ \E text \in DiffSummaries : CatchDiffReturns(text)
    \/ CatchDiffThrows
    \/ EnhancedReturn

-----------------------------------------------------------------------------
(* createPullRequest and invalidateCacheByPattern.  A cache key is the     *)
(* string CacheKeys builds: the sequence of its symbols, where the key     *)
(* kinds are spelled out and a workspace, a slug or another name is one    *)
(* symbol.                                                                 *)

Ws == <<"ws">>

Repo == <<"repo">>

OtherRepo == <<"other">>

\* CacheKeys (src/utils/cache.ts), on strings
RepositoryKey(workspace, repo_slug) ==
    <<"r", "e", "p", "o", ":">> \o workspace \o <<":">> \o repo_slug

RepositoriesKey(workspace, filters) ==
    <<"r", "e", "p", "o", "s", ":">> \o workspace \o <<":">> \o filters

BranchesKey(workspace, repo_slug) ==
    <<"b", "r", "a", "n", "c", "h", "e", "s", ":">> \o workspace \o <<":">> \o repo_slug

PullRequestKey(workspace, repo_slug, pr_id) ==
    <<"p", "r", ":">> \o workspace \o <<":">> \o repo_slug \o <<":">> \o pr_id

PullRequestsKey(workspace, repo_slug, filters) ==
    <<"p", "r", "s", ":">> \o workspace \o <<":">> \o repo_slug \o <<":">> \o filters

CommitsKey(workspace, repo_slug, branch, limit) ==
    <<"c", "o", "m", "m", "i", "t", "s", ":">> \o workspace \o <<":">> \o repo_slug
        \o <<":">> \o branch \o <<":">> \o limit

TokenValidationKey(email) == <<"t", "o", "k", "e", "n", ":">> \o email

\* JSON.stringify of a filters object whose values are strings: fields is
\* the sequence of its <<name, value>> pairs.
RECURSIVE StringifyFields(_)
StringifyFields(fields) ==
    IF Len(fields) = 0 THEN <<>>
    ELSE <<"\"", fields[1][1], "\"", ":", "\"">> \o fields[1][2] \o <<"\"">>
         \o (IF Len(fields) = 1 THEN <<>> ELSE <<",">> \o StringifyFields(Tail(fields)))

JsonStringify(fields) == <<"{">> \o StringifyFields(fields) \o <<"}">>

\* const cachePattern = `prs:${workspace}:${repo_slug}:`
CachePattern(workspace, repo_slug) ==
    <<"p", "r", "s", ":">> \o workspace \o <<":">> \o repo_slug \o <<":">>

\* The filters the list-pull-requests tool passes (it passes the whole parsed
\* argument object), for a repository and further fields.
ToolFilters(workspace, repo_slug, more) ==
    JsonStringify(<< <<"workspace", workspace>>, <<"repo_slug", repo_slug>> >> \o more)

\* The keys the cache is exercised with: lists of the repository and of
\* another one, with and without filters, one of them filtered by a free
\* text that holds the pattern; a repository list searched by such a text;
\* one key of every other kind.
CreateKeys ==
    {PullRequestsKey(Ws, Repo, JsonStringify(<<>>)),
     PullRequestsKey(Ws, Repo, ToolFilters(Ws, Repo, << <<"state", <<"OPEN">> >> >>)),
     PullRequestsKey(Ws, OtherRepo, ToolFilters(Ws, OtherRepo, <<>>)),
     PullRequestsKey(Ws, OtherRepo,
                     ToolFilters(Ws, OtherRepo, << <<"author", CachePattern(Ws, Repo)>> >>)),
     RepositoriesKey(Ws, JsonStringify(<< <<"query", CachePattern(Ws, Repo)>> >>)),
     PullRequestKey(Ws, Repo, <<"1">>),
     RepositoryKey(Ws, Repo),
     BranchesKey(Ws, Repo),
     CommitsKey(Ws, Repo, <<"main">>, <<"10">>),
     TokenValidationKey(<<"user@example.com">>)}

CreateCaches ==
    {[k \in present |-> [data |-> "v1", timestamp |-> 0, ttl |-> 100]] :
        present \in SUBSET CreateKeys}

CreateArgs == [workspace : {Ws}, repo_slug : {Repo, OtherRepo}]

NoArgs == [workspace |-> <<>>, repo_slug |-> <<>>]

\* typeof key === 'string' && key.includes(pattern)
KeyMatches(key, pattern) == IncludesStr(key, pattern)

\* invalidateCacheByPattern: the map it leaves.
InvalidateCacheByPattern(c, pattern) ==
    [key \in {k \in DOMAIN c : ~KeyMatches(k, pattern)} |-> c[key]]

CreateIdle ==
    /\ cpc = "idle"
    /\ cargs = NoArgs
    /\ cres = "none"

\* Lines 288-298: build the payload and post it.
CreateStart(args) ==
    /\ cpc = "idle"
    /\ cpc' = "posting"
    /\ cargs' = args
    /\ cres' = "none"
    /\ UNCHANGED <<cache, outsideCreate>>

\* Lines 298-312: the POST completes: invalidate and return the pull
\* request, or handleBitbucketError throws.
CreateResponding(status) ==
    /\ cpc = "posting"
    /\ cpc' = "done"
    /\ IF status = Ok
       THEN /\ cache' = InvalidateCacheByPattern(cache, CachePattern(cargs.workspace, cargs.repo_slug))
            /\ cres' = "created"
       ELSE /\ cache' = cache
            /\ cres' = "raised"
    /\ cargs' = cargs

CreateResponds(status) == CreateResponding(status) /\ UNCHANGED outsideCreate

\* The caller has the result; the method can be called again.
CreateReturn ==
    /\ cpc = "done"
    /\ cpc' = "idle"
    /\ cargs' = NoArgs
    /\ cres' = "none"
    /\ UNCHANGED <<cache, outsideCreate>>

CreateNext ==
    \/ \E args \in CreateArgs : CreateStart(args)
    \/ \E status \in Outcomes : CreateResponds(status)
    \/ CreateReturn

-----------------------------------------------------------------------------
(* getFileSpecificDiff (lines 614-708).  The body of a response is a diff  *)
(* text, a list of lines; the text the nested call of getPullRequestDiff   *)
(* returns is the one that call's model produces.                          *)

\* CacheTTL.PULL_REQUESTS
PullRequestsTtl == 60000

\* The file_path argument of the call.
FilePathArg == SrcA

FileOutcomes == {Ok, NotFound, 500}

\* The pull requests getPullRequest can return: the commit hashes matter.
FilePrResponses == {pr \in PrResponses : pr.title = {"fix"} /\ pr.branch = {"fix"}}

\* The bodies of the diff responses: empty, blank, the target file's
\* section, another file's section.
FileTexts ==
    { <<<<>>>>, << <<" ">>, <<>> >>,
      <<Header(SrcA, SrcA), <<"+", "x">> >>,
      <<Header(SrcB, SrcB), <<"+", "x">> >> }

NoFileAnswer == [kind |-> "none", status |-> NoResponse, text |-> <<<<>>>>]

NoFileResult ==
    [kind |-> "none", from |-> "none", extracted |-> FALSE, text |-> <<<<>>>>,
     of |-> "none", words |-> {}]

FileIdle ==
    /\ fpc = "idle"
    /\ flog = <<>>
    /\ fpr = NoPr
    /\ flast = NoFileAnswer
    /\ fres = NoFileResult

\* A variant of HasContent: whatever the response holds counts.
HasContent_AnyResponse(text) == Len(text) >= 1

\* line 673: response.data && response.data.trim().length > 0
HasContent(text) == ~BlankText(text)

\* A variant of NextAttempt: the unfiltered compare is tried last.
NextAttempt_CompareLast(attempt) ==
    CASE attempt = "comparePath" -> "source"
      [] attempt = "source" -> "commits"
      [] attempt = "latest" -> "compare"
      [] OTHER -> "full"

\* The attempts array of lines 637-666 in the order the loop of line 668
\* runs it; attempt 4 is two requests.  After the last attempt line 692
\* throws and the catch block of line 693 calls getPullRequestDiff.
NextAttempt(attempt) ==
    CASE attempt = "comparePath" -> "compare"
      [] attempt = "compare" -> "source"
      [] attempt = "source" -> "commits"
      [] OTHER -> "full"

\* The call issues the request of its next attempt, or enters the catch
\* block that calls getPullRequestDiff.
FileProceed(to) ==
    /\ fpc' = to
    /\ flog' = Append(flog, to)
    /\ fres' = fres

\* Lines 630-633 and 692: with both hashes the attempts start, without
\* them the throw of line 692 leads to the catch block.
AfterPullRequest(pr) ==
    IF HasBothHashes(pr) THEN FileProceed("comparePath") ELSE FileProceed("full")

\* cache.get of getPullRequest finds a live entry.
CacheHit(c, key, t) == Has(c, key) /\ ~Expired(c[key], t)

\* Lines 614-619 and 264-272: getPullRequest answers from the cache or
\* issues the metadata request.
FileStart ==
    /\ fpc = "idle"
    /\ LET key == KeyPullRequest(Workspace, RepoSlug, PrId)
       IN  /\ cache' = GetCache(cache, key, now)
           /\ flast' = NoFileAnswer
           /\ IF CacheHit(cache, key, now)
              THEN /\ fpr' = cache[key].data
                   /\ AfterPullRequest(cache[key].data)
              ELSE /\ fpr' = NoPr
                   /\ fpc' = "meta"
                   /\ flog' = flog
                   /\ fres' = fres
    /\ UNCHANGED outsideFile

\* Lines 273-285 and 619: the metadata request of getPullRequest
\* completes; a failure is thrown into the catch block of line 693.
FilePrResponds(status, pr) ==
    /\ fpc = "meta"
    /\ (status # Ok => pr = NoPr)
    /\ flast' = [kind |-> "meta", status |-> status, text |-> <<<<>>>>]
    /\ fpr' = pr
    /\ IF status = Ok
       THEN /\ cache' = MapSet(cache, KeyPullRequest(Workspace, RepoSlug, PrId),
                               CacheEntry(pr, PullRequestsTtl))
            /\ AfterPullRequest(pr)
       ELSE /\ cache' = cache
            /\ FileProceed("full")
    /\ UNCHANGED outsideFile

\* Lines 668-689: the diff request of an attempt completes.
AttemptResponds(status, text) ==
    /\ fpc \in {"comparePath", "compare", "source", "latest"}
    /\ (status # Ok => text = <<<<>>>>)
    /\ flast' = [kind |-> fpc, status |-> status, text |-> text]
    /\ IF status = Ok /\ HasContent(text)
       THEN /\ fpc' = "done"
            /\ flog' = flog
            /\ fres' = [NoFileResult EXCEPT
                          !.kind = "diff", !.from = fpc, !.extracted = (fpc = "compare"),
                          !.text = IF fpc = "compare"
                                   THEN ExtractFileFromDiff(text, FilePathArg)
                                   ELSE text]
       ELSE FileProceed(NextAttempt(fpc))
    /\ UNCHANGED <<fpr, cache, outsideFile>>

\* Lines 653-665: the commit list request of the fourth attempt completes.
FileCommitsResponds(status, n) ==
    /\ fpc = "commits"
    /\ (status # Ok => n = 0)
    /\ flast' = [kind |-> "commits", status |-> status, text |-> <<<<>>>>]
    /\ IF status = Ok /\ n > 0 THEN FileProceed("latest") ELSE FileProceed("full")
    /\ UNCHANGED <<fpr, cache, outsideFile>>

\* Lines 693-698: the catch block calls getPullRequestDiff; the locals of
\* the try block are gone.
FullCalls ==
    /\ fpc = "full"
    /\ DiffStarts
    /\ fpc' = "fullDiff"
    /\ fpr' = NoPr
    /\ flast' = NoFileAnswer
    /\ UNCHANGED <<flog, fres, now, lastOp, unswept, txVars, textVars, enhVars, createVars,
                   serverVars, readVars, statVars>>

\* Line 698: the call of getPullRequestDiff runs.
FullRuns ==
    /\ fpc = "fullDiff"
    /\ DiffResponds

\* Lines 698-706: getPullRequestDiff has returned or thrown; its locals
\* are gone.
FullEnds ==
    /\ fpc = "fullDiff"
    /\ dpc = "done"
    /\ fpc' = "done"
    /\ fres' = IF dres.kind = "raised"
               THEN [NoFileResult EXCEPT !.kind = "message", !.from = "full", !.of = dres.kind]
               ELSE [NoFileResult EXCEPT
                       !.kind = "diff", !.from = "full", !.extracted = TRUE,
                       !.of = dres.kind, !.words = dres.body]
    /\ dpc' = "idle"
    /\ dlog' = <<>>
    /\ dlast' = NoResponseYet
    /\ directStatus' = NoResponse
    /\ validateStatus' = NoResponse
    /\ dbody' = {}
    /\ dpr' = NoPr
    /\ dn' = 0
    /\ di' = 0
    /\ dmismatch' = FALSE
    /\ dres' = NoResult
    /\ UNCHANGED <<flog, fpr, flast, cache, now, lastOp, unswept, txVars, textVars, enhVars,
                   createVars, serverVars, readVars, statVars>>

\* The caller takes the text; the client can be called again.
FileReturn ==
    /\ fpc = "done"
    /\ fpc' = "idle"
    /\ flog' = <<>>
    /\ fpr' = NoPr
    /\ flast' = NoFileAnswer
    /\ fres' = NoFileResult
    /\ UNCHANGED <<cache, outsideFile>>

FileNext ==
    \/ FileStart
    \/ \E status \in FileOutcomes, pr \in FilePrResponses \cup {NoPr} : FilePrResponds(status, pr)
    \/ \E status \in FileOutcomes, text \in FileTexts : AttemptResponds(status, text)
    \/ \E status \in FileOutcomes, n \in 0..1 : FileCommitsResponds(status, n)
    \/ FullCalls
    \/ FullRuns
    \/ FullEnds
    \/ FileReturn

\* The cache a call can find: empty, or the pull request as an earlier
\* call stored it.
FileCaches ==
    {<<>>} \cup
    {[k \in {KeyPullRequest(Workspace, RepoSlug, PrId)} |->
         [data |-> pr, timestamp |-> 0, ttl |-> PullRequestsTtl]] : pr \in FilePrResponses}

-----------------------------------------------------------------------------
(* The cache-through reads (validateToken, getRepositories, getRepository, *)
(* getPullRequests, getPullRequest, getCommits, getBranches: one shape,    *)
(* lines 138-286 and 377-426), run here as getPullRequests and             *)
(* getRepository next to createPullRequest.  What a read fetches is known  *)
(* by the number of pull requests the repository held when the upstream    *)
(* answered.                                                               *)

ReadCalls == {"c1", "c2"}

ReadMethods == {"getPullRequests", "getRepository"}

\* CacheTTL.REPOSITORY
RepositoryTtl == 300000

MaxCreated == 1

ReadTimeStep == 40000

ReadMaxTime == 80000

\* The cache key of a read: CacheKeys.pullRequests with JSON.stringify({}),
\* CacheKeys.repository.
ReadKey(method) ==
    IF method = "getPullRequests" THEN PullRequestsKey(Ws, Repo, JsonStringify(<<>>))
    ELSE RepositoryKey(Ws, Repo)

\* A variant of ReadTtl: every read is cached for the longer time.
ReadTtl_AlwaysLong(method) == RepositoryTtl

ReadTtl(method) == IF method = "getPullRequests" THEN PullRequestsTtl ELSE RepositoryTtl

NoSnap == [status |-> NoResponse, version |-> 0]

NoRead == [kind |-> "none", version |-> 0, requested |-> FALSE]

ReadIdle ==
    /\ rpc = [c \in ReadCalls |-> "idle"]
    /\ rmethod = [c \in ReadCalls |-> "none"]
    /\ rsnap = [c \in ReadCalls |-> NoSnap]
    /\ rres = [c \in ReadCalls |-> NoRead]
    /\ rfloor = [c \in ReadCalls |-> 0]
    /\ upstream = 0
    /\ posted = FALSE
    /\ confirmed = 0

\* A variant of StoresResponse: whatever came back is stored.
StoresResponse_Always(status) == TRUE

\* cache.set is inside the try block, after the awaited request.
StoresResponse(status) == status = Ok

\* The method is called: cache.get, and on a miss the request goes out.
ReadStart(c, method) ==
    /\ rpc[c] = "idle"
    /\ rmethod' = [rmethod EXCEPT ![c] = method]
    /\ rfloor' = [rfloor EXCEPT ![c] = confirmed]
    /\ cache' = GetCache(cache, ReadKey(method), now)
    /\ IF CacheHit(cache, ReadKey(method), now)
       THEN /\ rpc' = [rpc EXCEPT ![c] = "done"]
            /\ rres' = [rres EXCEPT ![c] = [kind |-> "cached",
                                            version |-> cache[ReadKey(method)].data,
                                            requested |-> FALSE]]
       ELSE /\ rpc' = [rpc EXCEPT ![c] = "inflight"]
            /\ rres' = [rres EXCEPT ![c] = NoRead]
    /\ UNCHANGED <<rsnap, upstream, posted, confirmed, now, lastOp, unswept, txVars, diffVars,
                   textVars, enhVars, createVars, serverVars, fileVars, statVars>>

\* The upstream answers the request of the call; the response is on its way.
UpstreamAnswers(c, status) ==
    /\ rpc[c] = "inflight"
    /\ rpc' = [rpc EXCEPT ![c] = "served"]
    /\ rsnap' = [rsnap EXCEPT ![c] = [status |-> status,
                                      version |-> IF status = Ok THEN upstream ELSE 0]]
    /\ UNCHANGED <<rmethod, rres, rfloor, upstream, posted, confirmed, cacheVars, txVars,
                   diffVars, textVars, enhVars, createVars, serverVars, fileVars, statVars>>

\* The awaited request settles: cache.set and return, or the catch block.
ReadResponds(c) ==
    /\ rpc[c] = "served"
    /\ rpc' = [rpc EXCEPT ![c] = "done"]
    /\ IF StoresResponse(rsnap[c].status)
       THEN cache' = MapSet(cache, ReadKey(rmethod[c]),
                            CacheEntry(rsnap[c].version, ReadTtl(rmethod[c])))
       ELSE cache' = cache
    /\ rres' = [rres EXCEPT ![c] = [kind |-> IF rsnap[c].status = Ok THEN "fetched" ELSE "raised",
                                    version |-> rsnap[c].version,
                                    requested |-> TRUE]]
    /\ UNCHANGED <<rmethod, rsnap, rfloor, upstream, posted, confirmed, now, lastOp, unswept,
                   txVars, diffVars, textVars, enhVars, createVars, serverVars, fileVars, statVars>>

\* The caller has the result; the call's locals are gone.
ReadReturn(c) ==
    /\ rpc[c] = "done"
    /\ rpc' = [rpc EXCEPT ![c] = "idle"]
    /\ rmethod' = [rmethod EXCEPT ![c] = "none"]
    /\ rsnap' = [rsnap EXCEPT ![c] = NoSnap]
    /\ rres' = [rres EXCEPT ![c] = NoRead]
    /\ rfloor' = [rfloor EXCEPT ![c] = 0]
    /\ UNCHANGED <<upstream, posted, confirmed, cacheVars, txVars, diffVars, textVars, enhVars,
                   createVars, serverVars, fileVars, statVars>>

\* createPullRequest is called for the repository.
ReadCreateStart(args) ==
    /\ upstream < MaxCreated
    /\ args.repo_slug = Repo
    /\ CreateStart(args)

\* The upstream carries out the POST.
UpstreamCreates ==
    /\ cpc = "posting"
    /\ ~posted
    /\ upstream' = upstream + 1
    /\ posted' = TRUE
    /\ UNCHANGED <<rpc, rmethod, rsnap, rres, rfloor, confirmed, cacheVars, txVars, diffVars,
                   textVars, enhVars, createVars, serverVars, fileVars, statVars>>

\* The POST settles at the client: a 200 only when the upstream carried
\* it out.
ReadCreateResponds(status) ==
    /\ status = Ok => posted
    /\ CreateResponding(status)
    /\ posted' = FALSE
    /\ confirmed' = IF status = Ok THEN confirmed + 1 ELSE confirmed
    /\ UNCHANGED <<rpc, rmethod, rsnap, rres, rfloor, upstream, now, lastOp, unswept, txVars,
                   diffVars, textVars, enhVars, serverVars, fileVars, statVars>>

\* Time passes.
ReadTick ==
    /\ now + ReadTimeStep <= ReadMaxTime
    /\ now' = now + ReadTimeStep
    /\ UNCHANGED <<cache, lastOp, unswept, txVars, diffVars, textVars, enhVars, createVars,
                   serverVars, fileVars, readVars, statVars>>

ReadNext ==
    \/ \E c \in ReadCalls, method \in ReadMethods : ReadStart(c, method)
    \/ \E c \in ReadCalls, status \in {Ok, 500} : UpstreamAnswers(c, status)
    \/ \E c \in ReadCalls : ReadResponds(c)
    \/ \E c \in ReadCalls : ReadReturn(c)
    \/ \E args \in CreateArgs : ReadCreateStart(args)
    \/ UpstreamCreates
    \/ \E status \in {Ok, 500} : ReadCreateResponds(status)
    \/ CreateReturn
    \/ ReadTick

-----------------------------------------------------------------------------
(* The CallToolRequestSchema handler (index.ts 96-250).  Each call of the  *)
(* handler is an async function: another call can run while one waits.     *)
(* A client is known by its number, the position of its config in the      *)
(* list of the clients built so far.                                       *)

Calls == {"c1", "c2"}

\* at most this many clients are built in one run
MaxClients == 2

\* bitbucketClient === null
NoClient == 0

ConfigureTool == "configure-bitbucket"

\* the cases of the switch that need the client (lines 125-227)
ClientTools ==
    {"list-repositories", "get-repository", "list-pull-requests", "get-pull-request",
     "create-pull-request", "get-pull-request-diff", "get-pull-request-files",
     "list-issues", "get-issue", "create-issue", "get-commits", "list-branches",
     "get-file-content", "search-code"}

\* arguments of configure-bitbucket that BitbucketConfigSchema accepts
Configs == {"cfgA", "cfgB"}

\* arguments of configure-bitbucket that BitbucketConfigSchema rejects
BadConfig == "bad"

\* line 126 and its thirteen repetitions
NotConfigured == "Bitbucket not configured. Use configure-bitbucket first."

ServerIdle ==
    /\ bitbucketClient = NoClient
    /\ clients = <<>>
    /\ spc = [c \in Calls |-> "idle"]
    /\ sname = [c \in Calls |-> "none"]
    /\ sclient = [c \in Calls |-> NoClient]
    /\ sreq = [c \in Calls |-> 0]
    /\ sres = [c \in Calls |-> "none"]

\* A variant of AssignedClient that keeps a client once there is one.
AssignedClient_KeepsFirst(current, built) == IF current = NoClient THEN built ELSE current

\* line 103: bitbucketClient = new BitbucketClient(config)
AssignedClient(current, built) == built

\* The handler ends, by a return or a throw.
Ends(c, how) ==
    /\ spc' = [spc EXCEPT ![c] = "done"]
    /\ sres' = [sres EXCEPT ![c] = how]

\* case 'configure-bitbucket' (lines 101-106 and the catch of lines 238-245):
\* the parse rejects the arguments, or the client is replaced and the token
\* validation starts with a request of the new client.
Configure(c, args) ==
    /\ spc[c] = "idle"
    /\ sname' = [sname EXCEPT ![c] = ConfigureTool]
    /\ IF args = BadConfig
       THEN /\ Ends(c, "Validation error")
            /\ UNCHANGED <<bitbucketClient, clients, sclient, sreq>>
       ELSE /\ Len(clients) < MaxClients
            /\ clients' = Append(clients, args)
            /\ bitbucketClient' = AssignedClient(bitbucketClient, Len(clients) + 1)
            /\ spc' = [spc EXCEPT ![c] = "validating"]
            /\ sclient' = [sclient EXCEPT ![c] = bitbucketClient']
            /\ sreq' = [sreq EXCEPT ![c] = 1]
            /\ UNCHANGED sres
    /\ UNCHANGED outsideServer

\* lines 106-121: validateToken returns or throws, and either way the
\* handler returns the success message.
ValidationEnds(c) ==
    /\ spc[c] = "validating"
    /\ Ends(c, "bitbucket-configured")
    /\ UNCHANGED <<bitbucketClient, clients, sname, sclient, sreq, outsideServer>>

\* the fourteen cases of lines 124-227: without a client the handler throws
\* at once, otherwise the tool function is called with the client
Invoke(c, name) ==
    /\ spc[c] = "idle"
    /\ sname' = [sname EXCEPT ![c] = name]
    /\ IF bitbucketClient = NoClient
       THEN /\ Ends(c, NotConfigured)
            /\ UNCHANGED sclient
       ELSE /\ spc' = [spc EXCEPT ![c] = "running"]
            /\ sclient' = [sclient EXCEPT ![c] = bitbucketClient]
            /\ UNCHANGED sres
    /\ UNCHANGED <<bitbucketClient, clients, sreq, outsideServer>>

\* The tool function sends a request upstream through its client.
ToolRequests(c) ==
    /\ spc[c] = "running"
    /\ sreq[c] = 0
    /\ sreq' = [sreq EXCEPT ![c] = 1]
    /\ UNCHANGED <<bitbucketClient, clients, spc, sname, sclient, sres, outsideServer>>

\* The tool function returns its text, or throws and the catch block of
\* lines 229-249 throws an McpError: a validation error of the arguments
\* comes before every request.
ToolEnds(c, how) ==
    /\ spc[c] = "running"
    /\ how = "Validation error" => sreq[c] = 0
    /\ how = "returned" => sreq[c] = 1
    /\ Ends(c, how)
    /\ UNCHANGED <<bitbucketClient, clients, sname, sclient, sreq, outsideServer>>

\* The response has been sent: the call is over.
CallOver(c) ==
    /\ spc[c] = "done"
    /\ spc' = [spc EXCEPT ![c] = "idle"]
    /\ sname' = [sname EXCEPT ![c] = "none"]
    /\ sclient' = [sclient EXCEPT ![c] = NoClient]
    /\ sreq' = [sreq EXCEPT ![c] = 0]
    /\ sres' = [sres EXCEPT ![c] = "none"]
    /\ UNCHANGED <<bitbucketClient, clients, outsideServer>>

ServerNext ==
    \E c \in Calls :
        \/ \E args \in Configs \cup {BadConfig} : Configure(c, args)
        \/ ValidationEnds(c)
        \/ \E name \in ClientTools : Invoke(c, name)
        \/ ToolRequests(c)
        \/ \E how \in {"returned", "failed", "Validation error"} : ToolEnds(c, how)
        \/ CallOver(c)

-----------------------------------------------------------------------------
(* Specifications, one per component.                                      *)

InitTransport == TxInit /\ CacheIdle /\ DiffIdle /\ TextIdle /\ EnhancedIdle /\ CreateIdle /\ ServerIdle /\ FileIdle
    /\ ReadIdle
    /\ StatIdle

SpecTransport == InitTransport /\ [][TxNext]_vars

\* One request followed to its completion.  The timers of the interceptors
\* fire, and every transmission is answered: by the upstream, or by the
\* 30 s timeout of the axios instance (line 49).
LiveReqs == {"r1"}

TxNextLive ==
    \E r \in LiveReqs :
        \/ Issue(r)
        \/ Transmit(r)
        \/ OnSuccess(r)
        \/ \E status \in ErrorStatuses, h \in RetryAfterHeaders : OnError(r, status, h)
        \/ Reissue(r)

TxFairness ==
    \A r \in LiveReqs :
        /\ WF_vars(Transmit(r))
        /\ WF_vars(OnSuccess(r) \/ \E status \in ErrorStatuses, h \in RetryAfterHeaders : OnError(r, status, h))
        /\ WF_vars(Reissue(r))

SpecTransportLive == InitTransport /\ [][TxNextLive]_vars /\ TxFairness

InitCache == CacheIdle /\ TxInit /\ DiffIdle /\ TextIdle /\ EnhancedIdle /\ CreateIdle /\ ServerIdle /\ FileIdle
    /\ ReadIdle
    /\ StatIdle

SpecCache == InitCache /\ [][CacheNext]_vars

InitDiff ==
    /\ DiffIdle
    /\ TxInit
    /\ cache \in DiffCaches
    /\ now = 0
    /\ lastOp = NoOp
    /\ unswept = <<>>
    /\ TextIdle
    /\ EnhancedIdle
    /\ CreateIdle
    /\ ServerIdle
    /\ FileIdle
    /\ ReadIdle
    /\ StatIdle

SpecDiff == InitDiff /\ [][DiffNext]_vars

SpecDiffCalls == InitDiff /\ [][DiffCallsNext]_vars

InitExtract ==
    /\ xpc = "input"
    /\ fullDiff \in DiffTexts
    /\ filePath \in TargetPaths
    /\ extracted = <<>>
    /\ extractedAgain = <<>>
    /\ parsed = <<>>
    /\ FilterIdle
    /\ TxInit
    /\ CacheIdle
    /\ DiffIdle
    /\ EnhancedIdle
    /\ CreateIdle
    /\ ServerIdle
    /\ FileIdle
    /\ ReadIdle
    /\ StatIdle

SpecExtract == InitExtract /\ [][ExtractNext]_vars

InitParse ==
    /\ xpc = "input"
    /\ fullDiff \in StatTexts
    /\ filePath = <<>>
    /\ extracted = <<>>
    /\ extractedAgain = <<>>
    /\ parsed = <<>>
    /\ FilterIdle
    /\ TxInit
    /\ CacheIdle
    /\ DiffIdle
    /\ EnhancedIdle
    /\ CreateIdle
    /\ ServerIdle
    /\ FileIdle
    /\ ReadIdle
    /\ StatIdle

SpecParse == InitParse /\ [][ParseNext]_vars

InitFilter ==
    /\ xpc = "input"
    /\ fullDiff \in FilterTexts
    /\ fopts \in FilterOptions
    /\ filePath = <<>>
    /\ extracted = <<>>
    /\ extractedAgain = <<>>
    /\ parsed = <<>>
    /\ filtered = <<>>
    /\ filteredAgain = <<>>
    /\ TxInit
    /\ CacheIdle
    /\ DiffIdle
    /\ EnhancedIdle
    /\ CreateIdle
    /\ ServerIdle
    /\ FileIdle
    /\ ReadIdle
    /\ StatIdle

SpecFilter == InitFilter /\ [][FilterNext]_vars

InitEnhanced ==
    /\ EnhancedIdle
    /\ TxInit
    /\ cache \in DiffCaches
    /\ now = 0
    /\ lastOp = NoOp
    /\ unswept = <<>>
    /\ DiffIdle
    /\ TextIdle
    /\ CreateIdle
    /\ ServerIdle
    /\ FileIdle
    /\ ReadIdle
    /\ StatIdle

SpecEnhanced == InitEnhanced /\ [][EnhancedNext]_vars

InitCreate ==
    /\ CreateIdle
    /\ ServerIdle
    /\ FileIdle
    /\ ReadIdle
    /\ StatIdle
    /\ cache \in CreateCaches
    /\ now = 0
    /\ lastOp = NoOp
    /\ unswept = <<>>
    /\ TxInit
    /\ DiffIdle
    /\ TextIdle
    /\ EnhancedIdle

SpecCreate == InitCreate /\ [][CreateNext]_vars

InitServer ==
    /\ ServerIdle
    /\ FileIdle
    /\ ReadIdle
    /\ StatIdle
    /\ TxInit
    /\ CacheIdle
    /\ DiffIdle
    /\ TextIdle
    /\ EnhancedIdle
    /\ CreateIdle

SpecServer == InitServer /\ [][ServerNext]_vars

InitFile ==
    /\ FileIdle
    /\ ReadIdle
    /\ StatIdle
    /\ cache \in FileCaches
    /\ now = 0
    /\ lastOp = NoOp
    /\ unswept = <<>>
    /\ TxInit
    /\ DiffIdle
    /\ TextIdle
    /\ EnhancedIdle
    /\ CreateIdle
    /\ ServerIdle
    /\ ReadIdle
    /\ StatIdle

SpecFile == InitFile /\ [][FileNext]_vars

InitRead ==
    /\ ReadIdle
    /\ StatIdle
    /\ CacheIdle
    /\ TxInit
    /\ DiffIdle
    /\ TextIdle
    /\ EnhancedIdle
    /\ CreateIdle
    /\ ServerIdle
    /\ FileIdle

SpecRead == InitRead /\ [][ReadNext]_vars

-----------------------------------------------------------------------------
(* Claims about the transport layer.                                       *)

AfterError(r) == tpc[r] \in {"wait429", "wait5xx", "rejected", "pacing", "inflight"}

\* C8: for one logical request a 429 triggers a retry of the same request
\* exactly once: the first 429 is followed by one re-issue after a wait,
\* and any further 429 for that request is rejected to the caller without
\* another rate-limit retry.
C8_RateLimitRetryOnce ==
    \A r \in Reqs :
        /\ reissued429[r] <= 1
        /\ got429[r] = 0 => reissued429[r] = 0 /\ tpc[r] # "wait429"
        /\ got429[r] >= 1 =>
              \/ tpc[r] = "wait429" /\ got429[r] = 1 /\ reissued429[r] = 0
              \/ tpc[r] # "wait429" /\ reissued429[r] = 1
        /\ (lastStatus[r] = 429 /\ got429[r] >= 2) => tpc[r] = "rejected"

C8_Witness ==
    \E r \in Reqs :
        got429[r] = 2 /\ reissued429[r] = 1 /\ tpc[r] = "rejected" /\ lastStatus[r] = 429

\* C9 (as claimed): on every 429 the shared pacing delay becomes the
\* retry-after hint (seconds x 1000) when the header is present, otherwise
\* twice the current delay, capped at 10000 ms, and it is never lower than
\* the delay before the 429.
C9_ClaimedDelay(h, d) ==
    LET raw == IF h = NoHeader THEN 2 * d ELSE ParseInt(h) * 1000
    IN  IF raw > 10000 THEN 10000 ELSE raw

C9_DelayNeverLoweredBy429 ==
    [][\A r \in Reqs :
          (got429'[r] = got429[r] + 1 /\ lastHeader'[r] \in {NoHeader, "0", "1", "5", "30"}) =>
              /\ rateLimitDelay' = C9_ClaimedDelay(lastHeader'[r], rateLimitDelay)
              /\ rateLimitDelay' >= rateLimitDelay]_vars

\* C10: on 5xx responses the same request is retried at most 3 times (at
\* most 4 transmissions are answered by 5xx), the wait before retry number
\* attempt is 2^attempt seconds (1 s, 2 s, 4 s), and the 5xx answering the
\* third retry is rejected to the caller.
C10_BackoffTable == <<1000, 2000, 4000>>

C10_ServerErrorRetries ==
    \A r \in Reqs :
        /\ got5xx[r] <= 4
        /\ cfgRetryCount[r] <= 3
        /\ tpc[r] = "wait5xx" =>
              /\ cfgRetryCount[r] \in 1..3
              /\ timer[r] = C10_BackoffTable[cfgRetryCount[r]]
        /\ (AfterError(r) /\ lastStatus[r] >= 500) =>
              IF got5xx[r] <= 3 THEN tpc[r] # "rejected" /\ cfgRetryCount[r] = got5xx[r]
              ELSE tpc[r] = "rejected"

C10_Witness ==
    \E r \in Reqs :
        got5xx[r] = 4 /\ cfgRetryCount[r] = 3 /\ tpc[r] = "rejected" /\ lastStatus[r] = 500

Completed(r) == tpc[r] \in {"resolved", "rejected"}

MaxTransmissions == 1 + 1 + maxRetries

\* C11: every request issued through the transport eventually completes,
\* resolved with a response or rejected with a final error, whatever the
\* upstream answers, and it is transmitted at most 5 times (the original,
\* one rate-limit retry, three server-error retries).
C11_RequestsComplete ==
    /\ [](\A r \in LiveReqs : sent[r] <= 5 /\ sent[r] <= MaxTransmissions)
    /\ \A r \in LiveReqs : (tpc[r] # "idle") ~> Completed(r)

C11_Witness ==
    \E r \in Reqs :
        /\ sent[r] = 5 /\ got429[r] = 2 /\ got5xx[r] = 3
        /\ tpc[r] = "rejected" /\ lastStatus[r] = 429

\* the transmission of r in flight is answered in this step
Answered(r) == tpc[r] = "inflight" /\ tpc'[r] # "inflight"

\* an error without a response, or with a status that is neither 429 nor 5xx
NotRetriable(status) == status = NoResponse \/ (status >= 400 /\ status < 500 /\ status # 429)

\* C27: an error that has no response, or whose status is neither 429 nor
\* 5xx, is rejected in the step that receives it: no timer is started, no
\* retry marker is set, the pacing delay stays as it was, and a request whose
\* first answer is such an error was transmitted exactly once.
C27_OtherErrorsNotRetried ==
    /\ [](\A r \in Reqs :
             (NotRetriable(lastStatus[r]) /\ sent[r] > 0 /\ tpc[r] # "inflight"
                 /\ got429[r] = 0 /\ got5xx[r] = 0)
             => tpc[r] = "rejected" /\ sent[r] = 1)
    /\ [][\A r \in Reqs :
            (Answered(r) /\ NotRetriable(lastStatus'[r])) =>
                /\ tpc'[r] = "rejected"
                /\ rateLimitDelay' = rateLimitDelay
                /\ timer' = timer
                /\ sent' = sent
                /\ cfgRetry' = cfgRetry
                /\ cfgRetryCount' = cfgRetryCount]_vars

\* One request was rejected with 404 and the other with no response at all,
\* each after one transmission, and the pacing delay is the initial one.
C27_Witness ==
    /\ tpc = [r \in Reqs |-> "rejected"]
    /\ sent = [r \in Reqs |-> 1]
    /\ \E r, q \in Reqs : lastStatus[r] = 404 /\ lastStatus[q] = NoResponse
    /\ rateLimitDelay = InitialDelay

\* C28: a successful response sets the pacing delay to max(100, delay - 50),
\* which is never more than the delay before and never less than 100.
C28_SuccessLowersDelayToFloor ==
    [][\A r \in Reqs :
          (Answered(r) /\ tpc'[r] = "resolved") =>
              /\ rateLimitDelay # NaN =>
                    rateLimitDelay' = IF rateLimitDelay - 50 > 100 THEN rateLimitDelay - 50 ELSE 100
              /\ rateLimitDelay' # NaN
              /\ rateLimitDelay' >= 100
              /\ rateLimitDelay' <= rateLimitDelay]_vars

\* the request r enters the request interceptor in this step
EntersPacing(r) == tpc[r] # "pacing" /\ tpc'[r] = "pacing"

\* C29: whenever a request enters the request interceptor, for its first
\* transmission or for a retry, it waits the pacing delay as the last answer
\* to any request of the client left it; an answer to one request changes no
\* wait already started and no other field of the other request.
C29_DelayIsShared ==
    [][\A r \in Reqs :
          /\ EntersPacing(r) =>
                timer'[r] = IF rateLimitDelay # NaN /\ rateLimitDelay > 0 THEN rateLimitDelay ELSE 0
          /\ Answered(r) =>
                \A q \in Reqs \ {r} : timer'[q] = timer[q] /\ tpc'[q] = tpc[q]]_vars

\* One request was answered 429 with retry-after: 5; the other one, which has
\* never been answered, then entered the interceptor and waits 5000 ms, and
\* the retry of the first one waits 5000 ms before its transmission as well.
C29_Witness ==
    \E r, q \in Reqs :
        /\ r # q
        /\ lastStatus[r] = 429 /\ lastHeader[r] = "5" /\ got429[r] = 1
        /\ tpc[r] = "pacing" /\ reissued429[r] = 1 /\ timer[r] = 5000
        /\ sent[q] = 0 /\ tpc[q] = "pacing" /\ timer[q] = 5000
        /\ rateLimitDelay = 5000

\* C32: the shared pacing delay is always a number from 100 ms to 10000 ms,
\* whatever successes, 429 responses (with any retry-after hint or none)
\* and 5xx responses have been received.
C32_DelayWithinRange ==
    /\ rateLimitDelay # NaN
    /\ rateLimitDelay >= DelayFloor
    /\ rateLimitDelay <= DelayCap

\* C33: the wait before the retry of a request that was answered 429 is
\* never longer than the 10000 ms the pacing delay is capped at.
C33_RetryWaitCapped ==
    \A r \in Reqs : tpc[r] = "wait429" => timer[r] # NaN /\ timer[r] <= DelayCap

-----------------------------------------------------------------------------
(* Claims about getPullRequestDiff.                                        *)

InLog(kind) == \E i \in 1..Len(dlog) : dlog[i] = kind

Rank(kind) ==
    CASE kind = "direct" -> 1
      [] kind = "validate" -> 2
      [] kind = "meta" -> 3
      [] kind = "commits" -> 4
      [] kind = "commit" -> 5
      [] kind = "branch" -> 6
      [] kind = "range" -> 7

\* A request of a fallback strategy (or the metadata request that opens the
\* fallback path) has been issued, or the report has been returned.
FallbackEntered ==
    \/ \E kind \in {"meta", "commits", "commit", "branch", "range"} : InLog(kind)
    \/ dres.kind = "denied"

DirectCompleted == dpc \notin {"idle", "direct"}

\* The parts of C1 other than the entry condition of the fallback path: the
\* requests are issued in the order of the strategies; a later strategy
\* issues its request only after every earlier one was tried and returned no
\* diff (a returned diff ends the call); the commit-range request needs both
\* head commit hashes; the report comes after the branch comparison.
C1_Order ==
    /\ \A i, j \in 1..Len(dlog) :
          i < j => /\ Rank(dlog[i]) <= Rank(dlog[j])
                   /\ Rank(dlog[i]) = Rank(dlog[j]) => dlog[i] = "commit"
    /\ InLog("commits") => InLog("meta")
    /\ InLog("commit") => InLog("commits")
    /\ InLog("branch") => InLog("commits")
    /\ InLog("range") => InLog("branch") /\ dpr.srcHash /\ dpr.dstHash
    /\ dres.kind = "denied" => InLog("branch")
    /\ dres.from = "direct" => ~FallbackEntered
    /\ dres.from = "commit" => ~InLog("branch") /\ ~InLog("range")
    /\ dres.from = "branch" => ~InLog("range")
    /\ dres.kind \in {"diff", "denied", "raised"} => dpc = "done"

C2_MismatchContinuesToFallback ==
    dmismatch => /\ dres.kind # "raised"
                 /\ dres.from # "direct"
                 /\ InLog("meta")

\* C3: when the direct diff request fails with a status other than 404 the
\* call raises at once and issues no further request.
C3_Non404Raises ==
    (DirectCompleted /\ directStatus \notin {Ok, NotFound}) =>
        /\ dpc = "done"
        /\ dres.kind = "raised"
        /\ dlog = <<"direct">>

C3_Witness ==
    /\ DirectCompleted
    /\ directStatus = 500
    /\ dres.kind = "raised"
    /\ dlog = <<"direct">>

\* C4: after a 404 on the direct diff endpoint, when the three fallback
\* strategies were run and none returned a diff, the call returns the
\* access-denied text as a normal result and raises nothing, whatever the
\* statuses of the failed fallback requests.
C4_ExhaustedReturnsReport ==
    (dpc = "done" /\ directStatus = NotFound /\ InLog("commits") /\ dres.kind # "diff") =>
        /\ dres.kind = "denied"
        /\ dres.err = "none"
        /\ InLog("branch")
        /\ InLog("range") \/ ~(dpr.srcHash /\ dpr.dstHash)

C4_Witness ==
    /\ dpc = "done"
    /\ directStatus = NotFound
    /\ dres.kind = "denied"
    /\ dlast = [kind |-> "range", status |-> 500, body |-> {}]
    /\ InLog("commit")

OwnEntry == KeyPullRequest(Workspace, RepoSlug, PrId)

OtherPullRequests == {key \in DiffCacheKeys : key[1] = "pr" /\ key # OwnEntry}

\* C13: getPullRequestDiff deletes the cached metadata entry of its pull
\* request before it issues the direct diff request: the step that issues
\* the request leaves no entry under that key, none is there for the rest
\* of the call, and the entries of other pull requests are never changed.
C13_OwnEntryPurged ==
    [][/\ (dpc = "idle" /\ dpc' = "direct") =>
             /\ OwnEntry \notin DOMAIN cache'
             /\ dlog' = <<"direct">>
       /\ dpc' # "idle" => OwnEntry \notin DOMAIN cache'
       /\ \A key \in OtherPullRequests :
             /\ key \in DOMAIN cache <=> key \in DOMAIN cache'
             /\ key \in DOMAIN cache => cache'[key] = cache[key]]_vars

\* The direct diff request is out, the entry of the pull request is gone and
\* the entry of another pull request is still there.
C13_Witness ==
    /\ dpc = "direct"
    /\ OwnEntry \notin DOMAIN cache
    /\ \E key \in OtherPullRequests : key \in DOMAIN cache /\ cache[key].data = "v1"

\* A call of getPullRequestDiff or getPullRequestDiffStat begins.
CallBegins == dpc = "idle" /\ dpc' # "idle"

\* The cache after a step holds nothing the cache before it did not hold.
NothingCached ==
    /\ DOMAIN cache' \subseteq DOMAIN cache
    /\ \A key \in DOMAIN cache' : cache'[key] = cache[key]

\* C12: diff text and diff statistics are never cached: no step of
\* getPullRequestDiff or getPullRequestDiffStat writes a cache entry, and
\* every call of either issues its upstream request (the direct diff, the
\* diffstat) as its first step, whatever the cache holds.
C12_DiffsNeverCached ==
    [][/\ NothingCached
       /\ CallBegins =>
             \/ dpc' = "direct" /\ dlog' = <<"direct">>
             \/ dpc' = "diffstat" /\ dlog' = <<"diffstat">>
       /\ (dpc = "diffstat" /\ dpc' = "statDiff") => dlog' = <<"diffstat", "statDiff">>]_vars

\* A call in flight, its request issued, over a cache that still holds the
\* entry of the pull request and the list entry.
C12_Witness ==
    /\ dpc = "diffstat"
    /\ dlog = <<"diffstat">>
    /\ KeyPullRequest(Workspace, RepoSlug, PrId) \in DOMAIN cache
    /\ KeyPullRequests(Workspace, RepoSlug, "{}") \in DOMAIN cache

\* What the caller of the tool gets for an error the client threw: the tool
\* function returns formatErrorForUser for an EnhancedMcpError and rethrows
\* anything else (tools/pullrequest.ts, the catch of getPullRequestDiff), and
\* the handler then throws McpError 'Unexpected error: ...' (index.ts 229-249).
Surfaced(err) ==
    IF err \in {"detailed", "generic"} THEN "formatted text" ELSE "Unexpected error"

\* C20: every failure that leaves getPullRequestDiff or getPullRequestDiffStat
\* is an enriched error of handleBitbucketError, which the tool layer returns
\* as formatted text, whichever request of the call failed.
C20_FailuresEnriched ==
    (dpc = "done" /\ dres.kind = "raised") =>
        /\ dres.err \in {"detailed", "generic"}
        /\ Surfaced(dres.err) = "formatted text"

\* the single-commit diff requests the call has issued so far
CommitRequests == Cardinality({i \in 1..Len(dlog) : dlog[i] = "commit"})

\* C22: a call issues at most 3 single-commit diff requests and never more
\* than the list has commits; the k-th of them is for commit k of the list;
\* a diff returned from a commit is that of the commit requested last.
C22_AtMostThreeCommitDiffs ==
    /\ CommitRequests <= 3
    /\ CommitRequests <= dn
    /\ dpc = "commit" => di + 1 = CommitRequests
    /\ (dpc = "done" /\ dres.from = "commit") =>
          /\ di + 1 = CommitRequests
          /\ dlog[Len(dlog)] = "commit"
          /\ dlast.kind = "commit" /\ dlast.body = dres.body

\* The list has more than 3 commits, three diffs were requested and skipped,
\* and the call has moved on to the branch comparison.
C22_Witness ==
    /\ dn = MaxCommits
    /\ CommitRequests = 3
    /\ dpc = "branch"

\* The response of a single-commit diff request arrives in this step.
CommitDiffArrives == dpc = "commit" /\ dlast'.kind = "commit"

\* The commit diff contradicts the domain of a PR that looks domain-specific.
ContradictsDomain(pr, body) == IsEmergencyContactTitle(pr) /\ "cpd" \in body

\* C23: a single-commit diff that arrived, is not empty and does not
\* contradict the PR's domain is returned by the call; one that failed, is
\* empty or contradicts the domain is skipped.
C23_SkippedOnlyForCause ==
    [][CommitDiffArrives =>
          IF /\ dlast'.status = Ok
             /\ dlast'.body # {}
             /\ ~ContradictsDomain(dpr, dlast'.body)
          THEN /\ dpc' = "done"
               /\ dres' = [kind |-> "diff", from |-> "commit", err |-> "none", body |-> dlast'.body]
          ELSE dpc' \in {"commit", "branch"}]_vars

\* C38: once a call of getPullRequestDiff(workspace, repo, pr_id) has
\* started, the cache holds no pull-request list of that repository,
\* whatever filters the list was fetched with.
C38_ListEntriesPurged ==
    dpc # "idle" =>
        \A key \in DOMAIN cache :
            ~(key[1] = "prs" /\ key[2] = Workspace /\ key[3] = RepoSlug)

-----------------------------------------------------------------------------
(* Claims about SimpleCache.                                               *)

\* C7: get(key) returns a value only if an entry for key is present and
\* now - timestamp <= ttl; otherwise it returns absent, and an expired entry
\* is deleted.  In particular a get 150 ms after set(key, v, 100) returns
\* absent.
C7_GetHonoursTtl ==
    [][\A key \in Keys :
          (lastOp'.op = "get" /\ lastOp'.key = key) =>
              IF key \in DOMAIN cache /\ now - cache[key].timestamp <= cache[key].ttl
              THEN lastOp'.ret = cache[key].data /\ cache' = cache
              ELSE /\ lastOp'.ret = Null
                   /\ key \notin DOMAIN cache'
                   /\ \A k \in DOMAIN cache \ {key} : k \in DOMAIN cache' /\ cache'[k] = cache[k]]_vars

C7_Witness ==
    /\ lastOp.op = "get"
    /\ lastOp.ttl = 100
    /\ lastOp.age = 150
    /\ lastOp.ret = Null
    /\ lastOp.key \notin DOMAIN cache

\* what a get of the key at time t finds in the map c: its value, or absent
Readable(c, key, t) ==
    IF key \in DOMAIN c /\ t - c[key].timestamp <= c[key].ttl THEN c[key].data ELSE Null

\* C25: the sweep deletes exactly the entries a get at the same instant would
\* treat as expired and leaves the others unchanged; and at every point of
\* every interleaving of set, get, delete, clear, sweep and time advance a get
\* of any key finds what it would find had no sweep run, and each get
\* returned just that.
C25_SweepAgreesWithLazyExpiry ==
    /\ [](\A key \in Keys :
             /\ Readable(cache, key, now) = Readable(unswept, key, now)
             /\ key \in DOMAIN cache => key \in DOMAIN unswept /\ unswept[key] = cache[key])
    /\ [][/\ lastOp'.op = "cleanup" =>
                /\ DOMAIN cache' = {k \in DOMAIN cache : now - cache[k].timestamp <= cache[k].ttl}
                /\ \A k \in DOMAIN cache' : cache'[k] = cache[k]
                /\ \A k \in DOMAIN cache : (k \notin DOMAIN cache') <=> (Readable(cache, k, now) = Null)
          /\ lastOp'.op = "get" => lastOp'.ret = Readable(unswept, lastOp'.key, now)]_vars

\* A sweep has removed expired entries, one of which would still be in the
\* map without it, and a get of another removed key returned absent.
C25_Witness ==
    /\ lastOp.op = "get"
    /\ lastOp.ret = Null
    /\ lastOp.key \notin DOMAIN cache
    /\ \E k \in DOMAIN unswept \ DOMAIN cache : k # lastOp.key

\* C26: set(key, value, ttl) leaves under key the new value, the new ttl and
\* the time of the set as timestamp, whatever the key held before, and
\* changes the entry of no other key.
C26_SetOverwrites ==
    [][lastOp'.op = "set" =>
          /\ lastOp'.key \in DOMAIN cache'
          /\ cache'[lastOp'.key] =
                [data |-> lastOp'.ret, timestamp |-> now, ttl |-> lastOp'.ttlMs]
          /\ DOMAIN cache' = DOMAIN cache \cup {lastOp'.key}
          /\ \A k \in DOMAIN cache \ {lastOp'.key} : cache'[k] = cache[k]]_vars

\* A set has replaced an unexpired entry (age 50 of ttl 200) by another value
\* with another ttl, beside an entry of the other key.
C26_Witness ==
    /\ lastOp.op = "set"
    /\ lastOp.age = 50
    /\ lastOp.ttl = 200
    /\ lastOp.ttlMs = 100
    /\ cache[lastOp.key] = [data |-> lastOp.ret, timestamp |-> now, ttl |-> 100]
    /\ \E k \in DOMAIN cache : k # lastOp.key /\ cache[k].timestamp < now

-----------------------------------------------------------------------------
(* Claims about extractFileFromDiff.                                       *)

\* The header lines of a text whose two paths the pattern extracts.
HeadersOf(text) ==
    {text[i] : i \in {j \in 1..Len(text) : StartsWith(text[j], DiffGit) /\ HeaderMatch(text[j]).ok}}

\* The old or the new path of a header matches the requested path.
HeaderNamesTarget(line, target) ==
    \/ PathMatches(HeaderMatch(line).pathA, target, NormalizePath(target))
    \/ PathMatches(HeaderMatch(line).pathB, target, NormalizePath(target))

ScenarioD(hunkA, hunkB) == <<Header(SrcA, SrcA)>> \o hunkA \o <<Header(SrcB, SrcB)>> \o hunkB

\* C5: extractFileFromDiff returns only the sections whose header old/new
\* path matches the requested file path: every section header of the
\* result names the requested path (or, when no header of the diff does,
\* holds the base name of the requested path), and for a diff with the
\* sections of src/a.ts and src/b.ts and the path src/a.ts the result is
\* the src/a.ts section, with no line of the src/b.ts section.
C5_OnlyMatchingSections ==
    xpc = "done" =>
        /\ \A line \in HeadersOf(extracted) :
              \/ HeaderNamesTarget(line, filePath)
              \/ /\ \A other \in HeadersOf(fullDiff) : ~HeaderNamesTarget(other, filePath)
                 /\ IncludesStr(line, FileName(filePath))
        /\ \A hunkA \in HunkLines, hunkB \in HunkLines :
              (fullDiff = ScenarioD(hunkA, hunkB) /\ filePath = SrcA) =>
                  /\ extracted = <<Header(SrcA, SrcA)>> \o hunkA
                  /\ Header(SrcB, SrcB) \notin HeadersOf(extracted)

\* C17: extractFileFromDiff is idempotent: extracting the path from the
\* text an extraction returned gives that text again, also when several
\* sections match the path and when none does.
C17_ExtractIdempotent ==
    xpc = "again" => extractedAgain = extracted

-----------------------------------------------------------------------------
(* Claims about getPullRequestDiffEnhanced.                                *)

Returned == epc = "done" /\ eres.kind \in {"diff", "summary"}

\* C6: without file_path, when the estimate (length / 4) of the fetched diff
\* exceeds max_size (default 20000) the result is the 'too large' summary
\* with truncated = true, naming at most 10 files and then a remainder
\* count of total - 10 when there are more; when the estimate is at most
\* max_size the filtered diff text is returned with truncated = false.
C6_SizeDecision ==
    Returned =>
        IF efull.len > CharsPerToken * MaxTokenSize(eopts)
        THEN /\ eres.kind = "summary"
             /\ eres.truncated
             /\ Len(eres.listed) <= 10
             /\ eres.more = (eres.total > 10)
             /\ eres.more => eres.remainder = eres.total - 10
        ELSE /\ eres.kind = "diff"
             /\ ~eres.truncated
             /\ eres.diff = FilteredText(efull, eopts)

\* The options leave the text as it is: neither filter of applyDiffFilters
\* is on.
Unfiltered(options) ==
    ~options.ignore_whitespace /\ options.context_lines = NoContextLines

\* C34: without file_path, a result with truncated = false never holds a
\* diff text whose estimate (length / 4) exceeds max_size (default 20000),
\* however the diffstat retrieval ended.
C34_RawDiffWithinLimit ==
    (epc = "done" /\ eres.kind = "diff" /\ ~eres.truncated /\ Unfiltered(eopts)) =>
        eres.diff.of.len <= CharsPerToken * MaxTokenSize(eopts)

\* C35: one call without file_path calls getPullRequestDiff at most once,
\* and when that call throws, the error leaves the method with no further
\* call of getPullRequestDiff.
C35_FetchesAtMostOnce ==
    [][/\ efetches' <= 1
       /\ (epc = "fetch" /\ epc' # epc /\ efull' = NoText) =>
             epc' = "done" /\ eres'.kind = "raise"]_vars

-----------------------------------------------------------------------------
(* Claims about createPullRequest.                                         *)

\* The cached pull-request lists of a repository: the keys that start with
\* prs:<workspace>:<repo>:
ListsOf(c, workspace, repo_slug) ==
    {key \in DOMAIN c : StartsWith(key, CachePattern(workspace, repo_slug))}

\* C14: a successful createPullRequest(workspace, repo) removes exactly the
\* cached pull-request lists of that repository (the keys that start with
\* prs:<workspace>:<repo>:) and leaves every other entry as it was; a failed
\* one leaves the whole cache as it was.
C14_InvalidatesExactlyLists ==
    [][(cpc = "posting" /\ cpc' = "done") =>
          IF cres' = "created"
          THEN /\ DOMAIN cache' = DOMAIN cache \ ListsOf(cache, cargs.workspace, cargs.repo_slug)
               /\ \A key \in DOMAIN cache' : cache'[key] = cache[key]
          ELSE cache' = cache]_vars

-----------------------------------------------------------------------------
(* Claims about parseDiffForFileStats.                                     *)

KnownPaths == {SrcA, SrcB, LibA}

\* The positions of the lines that start with 'diff --git'.
HeaderPositions(text) == {i \in 1..Len(text) : StartsWith(text[i], DiffGit)}

\* Every header line of the text is diff --git a/<old> b/<new>.
WellFormedHeaders(text) ==
    \A i \in HeaderPositions(text) : \E a \in KnownPaths, b \in KnownPaths : text[i] = Header(a, b)

\* The position of header number k, and the end of its section.
HeaderAt(text, k) ==
    CHOOSE i \in HeaderPositions(text) :
        Cardinality({j \in HeaderPositions(text) : j < i}) = k - 1

SectionEnd(text, k) ==
    IF k < Cardinality(HeaderPositions(text)) THEN HeaderAt(text, k + 1) - 1 ELSE Len(text)

SectionLines(text, k) == HeaderAt(text, k) + 1 .. SectionEnd(text, k)

PlusLines(text, k) ==
    {j \in SectionLines(text, k) :
        StartsWith(text[j], <<"+">>) /\ ~StartsWith(text[j], <<"+", "+", "+">>)}

MinusLines(text, k) ==
    {j \in SectionLines(text, k) :
        StartsWith(text[j], <<"-">>) /\ ~StartsWith(text[j], <<"-", "-", "-">>)}

OldPathOf(line) == CHOOSE a \in KnownPaths : \E b \in KnownPaths : line = Header(a, b)

NewPathOf(line) == CHOOSE b \in KnownPaths : \E a \in KnownPaths : line = Header(a, b)

\* C15: for a diff text whose header lines are well formed,
\* parseDiffForFileStats yields one record per 'diff --git' line, in the
\* order of the headers, and the lines_added / lines_removed of a record
\* are the numbers of lines that start with '+' / '-' (but not with '+++' /
\* '---') between its header and the next header or the end of the text;
\* lines before the first header belong to no record.
C15_OneRecordPerHeader ==
    (xpc = "done" /\ WellFormedHeaders(fullDiff)) =>
        /\ Len(parsed) = Cardinality(HeaderPositions(fullDiff))
        /\ \A k \in 1..Len(parsed) :
              /\ parsed[k].lines_added = Cardinality(PlusLines(fullDiff, k))
              /\ parsed[k].lines_removed = Cardinality(MinusLines(fullDiff, k))
              /\ parsed[k].old \in {OldPathOf(fullDiff[HeaderAt(fullDiff, k)]), NoPath}
              /\ parsed[k].new \in {NewPathOf(fullDiff[HeaderAt(fullDiff, k)]), NoPath}

\* Two sections, a '+++' line that is not counted, a line before the first
\* header.
C15_Witness ==
    /\ xpc = "done"
    /\ fullDiff = << <<"+", "x">>, Header(SrcA, SrcA), <<"+", "+", "+", " ", "b", "/">> \o SrcA,
                     Header(SrcB, LibA) >>
    /\ Len(parsed) = 2
    /\ parsed[1].lines_added = 0
    /\ parsed[2].old = SrcB

HasLine(text, k, marker) == \E j \in SectionLines(text, k) : StartsWith(text[j], marker)

\* No section carries both a 'new file mode' and a 'deleted file mode' line.
OneModePerSection(text) ==
    \A k \in 1..Cardinality(HeaderPositions(text)) :
        ~(HasLine(text, k, NewFileMode) /\ HasLine(text, k, DeletedFileMode))

\* C16: parseDiffForFileStats classifies every record by one rule: a
\* section with a 'new file mode' line is 'added' and has no old path; one
\* with a 'deleted file mode' line is 'removed' and has no new path;
\* otherwise it is 'modified' when the old path of the header equals the new
\* one, and 'renamed' when they differ.
C16_Classification ==
    (xpc = "done" /\ WellFormedHeaders(fullDiff) /\ OneModePerSection(fullDiff)) =>
        \A k \in 1..Len(parsed) :
            LET header == fullDiff[HeaderAt(fullDiff, k)]
            IN  IF HasLine(fullDiff, k, NewFileMode)
                THEN /\ parsed[k].status = "added"
                     /\ parsed[k].old = NoPath
                     /\ parsed[k].new = NewPathOf(header)
                ELSE IF HasLine(fullDiff, k, DeletedFileMode)
                THEN /\ parsed[k].status = "removed"
                     /\ parsed[k].new = NoPath
                     /\ parsed[k].old = OldPathOf(header)
                ELSE /\ parsed[k].status =
                            IF OldPathOf(header) = NewPathOf(header) THEN "modified" ELSE "renamed"
                     /\ parsed[k].old = OldPathOf(header)
                     /\ parsed[k].new = NewPathOf(header)

C16_Witness ==
    /\ xpc = "done"
    /\ fullDiff = << Header(SrcB, LibA), Header(SrcA, SrcA), NewFileMode \o <<" ", "100644">>,
                     Header(SrcA, SrcA) >>
    /\ Len(parsed) = 3
    /\ parsed[1].status = "renamed"
    /\ parsed[2].status = "added" /\ parsed[2].old = NoPath
    /\ parsed[3].status = "modified"

-----------------------------------------------------------------------------
(* Claims about applyDiffFilters.                                          *)

\* A '+' or '-' line whose payload after the marker is empty or only blanks.
BlankChange(line) ==
    /\ line # <<>>
    /\ line[1] \in {"+", "-"}
    /\ \A j \in 2..Len(line) : line[j] \in {" ", "\t"}

\* A 'diff --git', '---', '+++' or '@@' line.
ProtectedLine(line) ==
    \/ line # <<>> /\ line[1] = "diff --git"
    \/ Len(line) >= 3 /\ line[1] = line[2] /\ line[2] = line[3] /\ line[1] \in {"+", "-"}
    \/ Len(line) >= 2 /\ line[1] = "@" /\ line[2] = "@"

\* the lines of the text at the positions of K, in their order
RECURSIVE LinesAt(_, _, _)
LinesAt(text, K, i) ==
    IF i > Len(text) THEN <<>>
    ELSE (IF i \in K THEN <<text[i]>> ELSE <<>>) \o LinesAt(text, K, i + 1)

\* the text of the lines: without any line it is the empty text
TextOf(lines) == IF Len(lines) = 0 THEN <<<<>>>> ELSE lines

WhitespaceOnly == fopts.ignore_whitespace /\ fopts.context_lines = NoContextLines

\* C18: with ignore_whitespace, applying applyDiffFilters to its own result
\* with the same options changes nothing; no 'diff --git', '---', '+++' or
\* '@@' line is removed; and when only the whitespace filter is on, the
\* result is the input without some lines, each of them a '+' or '-' line
\* whose payload is empty or blank, and no such line is left in the result.
C18_WhitespaceFilter ==
    (xpc = "refiltered" /\ fopts.ignore_whitespace) =>
        /\ filteredAgain = filtered
        /\ \A line \in FilterLines :
              ProtectedLine(line) =>
                 Cardinality({i \in 1..Len(filtered) : filtered[i] = line})
                    = Cardinality({i \in 1..Len(fullDiff) : fullDiff[i] = line})
        /\ WhitespaceOnly =>
              /\ \E K \in SUBSET (1..Len(fullDiff)) :
                    /\ filtered = TextOf(LinesAt(fullDiff, K, 1))
                    /\ \A i \in (1..Len(fullDiff)) \ K : BlankChange(fullDiff[i])
              /\ \A i \in 1..Len(filtered) : ~BlankChange(filtered[i])

\* A text with a blank '+' line, a '---' line and a '--' line has been
\* filtered twice with only ignore_whitespace on, and a line was removed.
C18_Witness ==
    /\ xpc = "refiltered"
    /\ WhitespaceOnly
    /\ \E i, j, k \in 1..Len(fullDiff) :
          /\ BlankChange(fullDiff[i])
          /\ fullDiff[j] = <<"-", "-", "-">>
          /\ fullDiff[k] = <<"-", "-">>
    /\ Len(filtered) < Len(fullDiff)
    /\ filteredAgain = filtered

\* a '+' or '-' line or an '@@' line
ChangeOrHunkLine(line) ==
    \/ line # <<>> /\ line[1] \in {"+", "-"}
    \/ Len(line) >= 2 /\ line[1] = "@" /\ line[2] = "@"

\* Line i of the text lies inside a hunk: an '@@' line precedes it with no
\* 'diff --git' line in between or at i.
InsideHunk(text, i) ==
    \E j \in 1..(i - 1) :
        /\ Len(text[j]) >= 2 /\ text[j][1] = "@" /\ text[j][2] = "@"
        /\ \A k \in (j + 1)..i : text[k] = <<>> \/ text[k][1] # "diff --git"

ContextOnly == ~fopts.ignore_whitespace /\ fopts.context_lines # NoContextLines

\* C30: context trimming with N in 0..10 returns the lines of the input at
\* some of their positions, in their order, among them every '+' / '-' line
\* and every '@@' line; with N = 0 no line inside a hunk that is neither a
\* '+' / '-' line nor an '@@' line is among them.
C30_ContextTrimming ==
    (xpc \in {"filtered", "refiltered"} /\ ContextOnly) =>
        \E K \in SUBSET (1..Len(fullDiff)) :
            /\ filtered = TextOf(LinesAt(fullDiff, K, 1))
            /\ \A i \in 1..Len(fullDiff) : ChangeOrHunkLine(fullDiff[i]) => i \in K
            /\ fopts.context_lines = 0 =>
                  \A i \in K : InsideHunk(fullDiff, i) => ChangeOrHunkLine(fullDiff[i])

\* With N = 0 a hunk of a context line followed by a change has been
\* trimmed to its '@@' line and the change.
C30_Witness ==
    /\ xpc = "filtered"
    /\ ContextOnly
    /\ fopts.context_lines = 0
    /\ fullDiff = << <<"@", "@">>, <<" ", "z">>, <<"-", "y">> >>
    /\ filtered = << <<"@", "@">>, <<"-", "y">> >>

\* C31: context trimming keeps every line that lies outside any hunk: the
\* lines before the first '@@' line of each file section, the section's
\* 'diff --git' line and the lines that follow it up to its first '@@'
\* line among them, for every N.
C31_OutsideHunkKept ==
    (xpc \in {"filtered", "refiltered"} /\ ContextOnly) =>
        \E K \in SUBSET (1..Len(fullDiff)) :
            /\ filtered = TextOf(LinesAt(fullDiff, K, 1))
            /\ \A i \in 1..Len(fullDiff) : ~InsideHunk(fullDiff, i) => i \in K

-----------------------------------------------------------------------------
(* Claims about the CallToolRequestSchema handler.                         *)

\* The call c begins with a tool that needs the client.
ToolInvoked(c) == spc[c] = "idle" /\ sname'[c] \in ClientTools

-----------------------------------------------------------------------------
(* Claims about getFileSpecificDiff.                                       *)

\* The order the diff requests and calls of one call can be made in.  The
\* third strategy, the most recent commit's diff for the path, is the
\* source commit's diff and then the diff of the first commit of the list.
FileOrder == <<"comparePath", "compare", "source", "commits", "latest", "full">>

PositionOf(step) == CHOOSE i \in 1..Len(FileOrder) : FileOrder[i] = step

InFileOrder(log) ==
    \A i, j \in 1..Len(log) : i < j => PositionOf(log[i]) < PositionOf(log[j])

Logged(log, step) == \E i \in 1..Len(log) : log[i] = step

\* The answer to the diff request of the given attempt was a failure: an
\* error or a blank body.
AttemptFailed(answer, attempt) ==
    /\ answer.kind = attempt
    /\ answer.status # Ok \/ BlankText(answer.text)

\* C21: getFileSpecificDiff makes its requests in the order compare with
\* path, unfiltered compare (the file is extracted locally), most recent
\* commit's diff with path, full diff through getPullRequestDiff (the file
\* is extracted locally); each is entered only when the one before it
\* failed, and a pull request without both commit hashes leads directly
\* to the full diff.
C21_StrategiesInOrder ==
    [][/\ InFileOrder(flog')
       /\ fpc' # fpc =>
            /\ fpc' = "comparePath" => fpc \in {"idle", "meta"} /\ HasBothHashes(fpr')
            /\ fpc' = "compare" => fpc = "comparePath" /\ AttemptFailed(flast', "comparePath")
            /\ fpc' = "source" => fpc = "compare" /\ AttemptFailed(flast', "compare")
            /\ fpc' = "commits" => fpc = "source" /\ AttemptFailed(flast', "source")
            /\ fpc' = "latest" => fpc = "commits" /\ flast'.status = Ok
            /\ fpc' = "full" =>
                 \/ fpc \in {"idle", "meta"} /\ ~HasBothHashes(fpr')
                 \/ /\ fpc = "commits" \/ (fpc = "latest" /\ AttemptFailed(flast', "latest"))
                    /\ \A a \in {"comparePath", "compare", "source", "commits"} : Logged(flog, a)
            /\ fpc \in {"idle", "meta"} /\ fpc' # "meta" /\ ~HasBothHashes(fpr') => fpc' = "full"
            /\ fpc' = "fullDiff" => fpc = "full"
            /\ fpc' = "done" =>
                 /\ fres'.kind = "diff" /\ fres'.from = "compare" =>
                      /\ fpc = "compare"
                      /\ fres'.extracted
                      /\ fres'.text = ExtractFileFromDiff(flast'.text, FilePathArg)
                 /\ fres'.kind = "diff" /\ fres'.from \in {"comparePath", "source", "latest"} =>
                      /\ fpc = fres'.from
                      /\ ~fres'.extracted
                      /\ fres'.text = flast'.text
                 /\ fres'.from = "full" =>
                      /\ fpc = "fullDiff"
                      /\ fres'.kind = "diff" => fres'.extracted /\ fres'.of \in {"diff", "denied"}]_vars

\* Every attempt failed and the file was extracted from the text the
\* nested getPullRequestDiff returned.
C21_Witness ==
    /\ fpc = "done"
    /\ flog = FileOrder
    /\ fres.kind = "diff"
    /\ fres.from = "full"
    /\ fres.of = "diff"


FileAttempts == {"comparePath", "compare", "source", "latest"}

FallbackStrategies == {"commit", "branch", "range"}

\* The answer is an error or a response with an empty body.
EmptyOrError(status, emptyBody) == status # Ok \/ emptyBody

\* C24: in the attempts of getFileSpecificDiff and in the fallback
\* strategies of getPullRequestDiff a response with an empty body and an
\* error have the same effect: nothing is returned from that attempt and
\* the chain goes on to what follows it; no result of an attempt or a
\* fallback strategy is the empty text.
C24_EmptyIsFailure ==
    [][/\ fpc \in FileAttempts /\ fpc' # fpc
          /\ EmptyOrError(flast'.status, flast'.text = <<<<>>>>) =>
            /\ fpc' = NextAttempt(fpc)
            /\ flog' = Append(flog, NextAttempt(fpc))
            /\ fres' = fres
       /\ dpc \in FallbackStrategies /\ (dpc' # dpc \/ di' # di)
          /\ EmptyOrError(dlast'.status, dlast'.body = {}) =>
            /\ dres'.kind # "diff"
            /\ dpc = "commit" =>
                 /\ di' = di + 1
                 /\ dpc' = IF di + 1 < Min(dn, CommitLoopMax) THEN "commit" ELSE "branch"
            /\ dpc = "branch" =>
                 IF HasBothHashes(dpr) THEN dpc' = "range" ELSE dres'.kind = "denied"
            /\ dpc = "range" => dres'.kind = "denied"
       /\ fres'.kind = "diff" /\ fres'.from \in FileAttempts \ {"compare"} =>
            fres'.text # <<<<>>>>
       /\ fres'.kind = "diff" /\ fres'.from = "compare" => flast'.text # <<<<>>>>
       /\ dres'.kind = "diff" /\ dres'.from \in FallbackStrategies => dres'.body # {}]_vars

\* The compare with path answered 200 with an empty body and the call
\* went on to the unfiltered compare.
C24_Witness ==
    /\ fpc = "compare"
    /\ flast.kind = "comparePath"
    /\ flast.status = Ok
    /\ flast.text = <<<<>>>>
    /\ fres = NoFileResult

-----------------------------------------------------------------------------
(* Claims about the cache-through reads.                                   *)

\* C36: a getPullRequests call that begins after createPullRequest for the
\* repository has returned successfully returns a list the upstream made
\* after that creation: a list that holds every pull request whose creation
\* had returned when the call began.
C36_ListsAfterCreationAreFresh ==
    \A c \in ReadCalls :
        (rpc[c] = "done" /\ rmethod[c] = "getPullRequests"
         /\ rres[c].kind \in {"cached", "fetched"}) =>
            rres[c].version >= rfloor[c]


\* The entry of the key is readable at time t.
LiveEntry(c, key, t) == key \in DOMAIN c /\ t - c[key].timestamp <= c[key].ttl

\* The call c begins in this step.
ReadBegins(c) == rpc[c] = "idle" /\ rpc'[c] # "idle"

\* The awaited request of the call c settles in this step.
ReadSettles(c) == rpc[c] = "served" /\ rpc'[c] = "done"

\* C37: a cache-through read whose upstream request fails leaves the cache
\* as it was, so that the next call for the key sends a request again; an
\* entry is created or replaced only by a read whose request succeeded,
\* with what it fetched; a call that finds a live entry returns it and
\* sends no request, and a call that finds none sends one.
C37_FailuresNotCached ==
    [][/\ \A c \in ReadCalls :
             /\ ReadSettles(c) /\ rsnap[c].status # Ok =>
                   /\ cache' = cache
                   /\ rres'[c].kind = "raised"
             /\ ReadBegins(c) =>
                   IF LiveEntry(cache, ReadKey(rmethod'[c]), now)
                   THEN /\ rpc'[c] = "done"
                        /\ rres'[c] = [kind |-> "cached",
                                       version |-> cache[ReadKey(rmethod'[c])].data,
                                       requested |-> FALSE]
                        /\ cache' = cache
                   ELSE rpc'[c] = "inflight"
       /\ \A key \in DOMAIN cache' :
             (key \notin DOMAIN cache \/ cache'[key] # cache[key]) =>
                \E c \in ReadCalls :
                    /\ ReadSettles(c)
                    /\ rsnap[c].status = Ok
                    /\ key = ReadKey(rmethod[c])
                    /\ cache'[key] = [data |-> rsnap[c].version, timestamp |-> now,
                                      ttl |-> ReadTtl(rmethod[c])]]_vars

\* A read failed and stored nothing, and the next call for its key has
\* sent a request.
C37_Witness ==
    \E c, d \in ReadCalls :
        /\ rpc[c] = "done"
        /\ rres[c].kind = "raised"
        /\ rpc[d] = "inflight"
        /\ rmethod[d] = rmethod[c]
        /\ rfloor[d] = 0
        /\ ReadKey(rmethod[c]) \notin DOMAIN cache
        /\ cpc = "idle"

-----------------------------------------------------------------------------
(* Claims about getPullRequestDiffStat called on its own.                  *)

\* the returned diff text has a file section
HasFileSection(text) == \E i \in 1..Len(text) : StartsWith(text[i], DiffGit)

\* C40: getPullRequestDiffStat returns an empty file list from its catch
\* block only when getPullRequestDiff obtained diff data that has no file
\* section; when getPullRequestDiff ends in the access report the call does
\* not end with a file list.
C40_EmptyListOnlyForEmptyDiff ==
    /\ (dres.kind = "stats" /\ dres.from = "parsed" /\ sfiles = <<>>)
            => (sdiff.kind = "diff" /\ ~HasFileSection(sdiff.text))
    /\ sdiff.kind = "denied" => dres.kind # "stats"

=============================================================================
